---- MODULE Spec2Model ----
(***************************************************************************)
(* Distributed inventory management (QLHH smartphone retail).              *)
(*                                                                         *)
(* The stores are three MongoDB databases: server1 and server2 hold the    *)
(* transactional collections of branch CN1 and CN2, server3 the shared     *)
(* reference collections.  Every Streamlit session replays the page script *)
(* on each interaction; the script issues its MongoDB calls one after the  *)
(* other, so a step of the model is one MongoDB call of one script run and *)
(* the runs of different sessions interleave between calls.                *)
(***************************************************************************)
EXTENDS Integers, FiniteSets, Sequences, Bags, TLC

(***************************************************************************)
(* Bounds of the model.                                                    *)
(***************************************************************************)
\* largest quantity a form submits (st.number_input has min_value=1, no maximum)
MaxQty == 2
\* stock of (KHO1, VT01) when the model starts
InitStock == 2
\* script runs started in one behaviour when the runs of the sessions interleave
MaxOps == 2
\* script runs started in one behaviour when they run one at a time
MaxSeqOps == 3

Sessions == {"s1", "s2"}

\* the numbers a user enters into the quantity field and the price field
TypedQuantities == 0..MaxQty
TypedPrices == {-1, 0, 1}

\* (mutant) the widget returns what was entered
NumberInputAsTyped(min_value, typed) == typed

\* st.number_input(..., min_value=...): the widget returns no value below
\* min_value
NumberInput(min_value, typed) == IF typed < min_value THEN min_value ELSE typed

\* quantities a form submits
Quantities == {NumberInput(1, q) : q \in TypedQuantities}
\* unit prices a form submits: DONGIA is stored and never read by a handler,
\* two values tell a price that was set from one that was left alone
Prices == {NumberInput(0, p) : p \in TypedPrices}

(***************************************************************************)
(* database.py: the partition router.                                      *)
(***************************************************************************)
Servers == {"server1", "server2", "server3"}

transactional_collections ==
    {"DatHang", "CTDDH", "PhieuNhap", "CTPN", "PhieuXuat", "CTPX", "Inventory"}

reference_collections == {"Nhanvien", "Kho", "Vattu", "users"}

\* a branch argument that is None
NoBranch == "None"

\* str.upper() on the branch codes the model uses
Upper(branch) ==
    CASE branch = "cn1" -> "CN1"
      [] branch = "cn2" -> "CN2"
      [] branch = "cn3" -> "CN3"
      [] OTHER -> branch

\* (mutant) every branch is routed to the database of CN1
GetCollectionOneServer(branch, collection_name) ==
    LET b == IF branch = NoBranch \/ branch = "" THEN NoBranch ELSE Upper(branch)
    IN  IF collection_name \in reference_collections THEN "server3"
        ELSE IF collection_name \in transactional_collections
             THEN IF b \in {"CN1", "CN2"} THEN "server1" ELSE "ValueError"
        ELSE "server3"

\* (mutant) a transactional collection of no known branch is taken from the
\* shared database
GetCollectionDefaultShared(branch, collection_name) ==
    LET b == IF branch = NoBranch \/ branch = "" THEN NoBranch ELSE Upper(branch)
    IN  IF collection_name \in reference_collections THEN "server3"
        ELSE IF collection_name \in transactional_collections
             THEN IF b = "CN1" THEN "server1"
                  ELSE IF b = "CN2" THEN "server2"
                  ELSE "server3"
        ELSE "server3"

\* (mutant) the branch is looked at first, whatever the collection
GetCollectionBranchFirst(branch, collection_name) ==
    LET b == IF branch = NoBranch \/ branch = "" THEN NoBranch ELSE Upper(branch)
    IN  IF b = "CN1" THEN "server1"
        ELSE IF b = "CN2" THEN "server2"
        ELSE IF collection_name \in reference_collections THEN "server3"
        ELSE "ValueError"

\* get_collection: the server that owns collection_name for branch, or the
\* ValueError it raises
GetCollection(branch, collection_name) ==
    LET b == IF branch = NoBranch \/ branch = "" THEN NoBranch ELSE Upper(branch)
    IN  IF collection_name \in reference_collections THEN "server3"
        ELSE IF collection_name \in transactional_collections
             THEN IF b = "CN1" THEN "server1"
                  ELSE IF b = "CN2" THEN "server2"
                  ELSE "ValueError"
        ELSE "server3"

(***************************************************************************)
(* A collection is a bag of documents; a document and a filter are records *)
(* (functions from field names).                                           *)
(***************************************************************************)
Matches(doc, flt) == \A k \in DOMAIN flt : k \in DOMAIN doc /\ doc[k] = flt[k]

Find(col, flt) == {d \in BagToSet(col) : Matches(d, flt)}

\* the document find_one returns (used only when Find is not empty)
FindOne(col, flt) == CHOOSE d \in Find(col, flt) : TRUE

\* init_schema: the fields of the unique index of each collection
UniqueIndex(collection_name) ==
    CASE collection_name = "Nhanvien" -> {"MANV"}
      [] collection_name = "Kho" -> {"MAKHO"}
      [] collection_name = "Vattu" -> {"MAHANG"}
      [] collection_name = "users" -> {"username"}
      [] collection_name = "DatHang" -> {"MasoDDH"}
      [] collection_name = "PhieuNhap" -> {"MAPN"}
      [] collection_name = "PhieuXuat" -> {"MAPX"}
      [] collection_name = "CTDDH" -> {"MasoDDH", "MAHANG"}
      [] collection_name = "CTPN" -> {"MAPN", "MAHANG"}
      [] collection_name = "CTPX" -> {"MAPX", "MAHANG"}
      [] collection_name = "Inventory" -> {"MAKHO", "MAHANG"}
      [] OTHER -> {}

\* (mutant) the collection has no unique index
IndexNoCheck(collection_name, col, doc) == FALSE

\* does inserting doc break the unique index of the collection
ViolatesIndex(collection_name, col, doc) ==
    LET idx == UniqueIndex(collection_name)
    IN  /\ idx # {}
        /\ \E d \in BagToSet(col) : \A k \in idx : k \in DOMAIN d /\ d[k] = doc[k]

\* insert_one once the index allows it
InsertOne(col, doc) == col (+) SetToBag({doc})

\* delete_one: removes one matching document, if any
DeleteOne(col, flt) ==
    IF Find(col, flt) = {} THEN col ELSE col (-) SetToBag({FindOne(col, flt)})

\* update_one with $set: changes one matching document, if any
SetOne(col, flt, fields) ==
    IF Find(col, flt) = {} THEN col
    ELSE LET d == FindOne(col, flt)
             e == [k \in DOMAIN d \cup DOMAIN fields |->
                      IF k \in DOMAIN fields THEN fields[k] ELSE d[k]]
         IN  (col (-) SetToBag({d})) (+) SetToBag({e})

\* update_one with $inc on SOLUONG; with upsert a missing document is inserted
\* from the filter and the increment
IncOne(col, flt, delta, upsert) ==
    IF Find(col, flt) = {}
    THEN IF upsert THEN col (+) SetToBag({flt @@ [SOLUONG |-> delta]}) ELSE col
    ELSE LET d == FindOne(col, flt)
             e == [d EXCEPT !.SOLUONG = @ + delta]
         IN  (col (-) SetToBag({d})) (+) SetToBag({e})

(***************************************************************************)
(* State.                                                                  *)
(*   db    the three databases: server -> collection name -> collection    *)
(*   sess  per session, the script run in progress: its position (pc), the *)
(*         submitted form and the values the run has read so far           *)
(*   ops   the number of script runs started                               *)
(***************************************************************************)
VARIABLES db, sess, ops

vars == <<db, sess, ops>>

\* the logged-in user of each session (st.session_state.user)
SessionUser(s) ==
    CASE s = "s0" -> [username |-> "admin", role |-> "CongTy", branch |-> NoBranch]
      [] s = "s1" -> [username |-> "cn1_mgr", role |-> "ChiNhanh", branch |-> "CN1"]
      [] s = "s3" -> [username |-> "cn2_mgr", role |-> "ChiNhanh", branch |-> "CN2"]
      [] OTHER -> [username |-> "user1", role |-> "User", branch |-> "CN1"]

DetailKinds == {"CTDDH", "CTPN", "CTPX"}

\* the header collection a detail collection belongs to
HeaderOf(kind) ==
    CASE kind = "CTDDH" -> "DatHang"
      [] kind = "CTPN" -> "PhieuNhap"
      [] kind = "CTPX" -> "PhieuXuat"

\* the field that holds the header id, in the header and in its detail lines
ParentKey(kind) ==
    CASE kind = "CTDDH" -> "MasoDDH"
      [] kind = "CTPN" -> "MAPN"
      [] kind = "CTPX" -> "MAPX"

\* order details and outbound details take stock out, inbound details put it in
Consuming(kind) == kind \in {"CTDDH", "CTPX"}

Coll(d, branch, name) == d[GetCollection(branch, name)][name]

Put(d, branch, name, col) == [d EXCEPT ![GetCollection(branch, name)][name] = col]

DetailKey(kind, parent, mahang) == (ParentKey(kind) :> parent) @@ [MAHANG |-> mahang]

DetailDoc(kind, parent, mahang, soluong, dongia) ==
    (ParentKey(kind) :> parent)
        @@ [MAHANG |-> mahang, SOLUONG |-> soluong, DONGIA |-> dongia]

InvKey(makho, mahang) == [MAKHO |-> makho, MAHANG |-> mahang]

\* inv.get("SOLUONG", 0) if inv else 0
Available(d, branch, makho, mahang) ==
    LET inv == Find(Coll(d, branch, "Inventory"), InvKey(makho, mahang))
    IN  IF inv = {} THEN 0 ELSE (CHOOSE i \in inv : TRUE).SOLUONG

Idle ==
    [pc |-> "idle", op |-> "", kind |-> "", parent |-> "", MAKHO |-> "",
     mahang |-> "", soluong |-> 0, dongia |-> 0, old |-> 0, out |-> ""]

\* the script run ends: st.success, st.error or an uncaught exception
Done(se, out) == [se EXCEPT !.pc = "done", !.out = out]

\* the ids of the headers of the model
Parents == {"DH1", "DH2", "PN1", "PN2", "PX1", "PX2"}

\* the material codes of the model
Materials == {"VT01", "VT02"}

\* the forms a user can submit
Requests ==
    [op : {"add", "edit"}, kind : DetailKinds, parent : Parents,
     mahang : Materials, soluong : Quantities, dongia : Prices]
    \cup
    [op : {"delete"}, kind : DetailKinds, parent : Parents,
     mahang : Materials, soluong : {0}, dongia : {0}]

\* the header is in the list the page shows, the material is among the
\* options of the add form, the detail line among those of the edit form
Offered(branch, d, req) ==
    /\ Find(Coll(d, branch, HeaderOf(req.kind)), (ParentKey(req.kind) :> req.parent)) # {}
    /\ req.op = "add" =>
          Find(Coll(d, NoBranch, "Vattu"), [MAHANG |-> req.mahang]) # {}
    /\ req.op \in {"edit", "delete"} =>
          Find(Coll(d, branch, req.kind),
               DetailKey(req.kind, req.parent, req.mahang)) # {}

\* (mutant) the ledger key takes the first warehouse of the branch, not the
\* warehouse of the header
BeginSBranchWarehouse(branch, d, req) ==
    LET order_doc == FindOne(Coll(d, branch, HeaderOf(req.kind)),
                             (ParentKey(req.kind) :> req.parent))
        details == Find(Coll(d, branch, req.kind), (ParentKey(req.kind) :> req.parent))
        edit_doc == CHOOSE e \in details : e.MAHANG = req.mahang
    IN  [pc |-> CASE req.op = "add" -> "find_existing"
                  [] req.op = "edit" ->
                        IF Consuming(req.kind) THEN "edit_find_inv" ELSE "edit_set"
                  [] req.op = "delete" -> "delete_one",
         op |-> req.op, kind |-> req.kind, parent |-> req.parent,
         MAKHO |-> IF branch = "CN1" THEN "KHO1" ELSE "KHO2", mahang |-> req.mahang,
         soluong |-> req.soluong, dongia |-> req.dongia,
         old |-> IF req.op = "add" THEN 0 ELSE edit_doc.SOLUONG,
         out |-> ""]

\* the start of a script run: order_doc / pn_doc / px_doc and details are read,
\* edit_doc is taken from details
BeginS(branch, d, req) ==
    LET order_doc == FindOne(Coll(d, branch, HeaderOf(req.kind)),
                             (ParentKey(req.kind) :> req.parent))
        details == Find(Coll(d, branch, req.kind), (ParentKey(req.kind) :> req.parent))
        edit_doc == CHOOSE e \in details : e.MAHANG = req.mahang
    IN  [pc |-> CASE req.op = "add" -> "find_existing"
                  [] req.op = "edit" ->
                        IF Consuming(req.kind) THEN "edit_find_inv" ELSE "edit_set"
                  [] req.op = "delete" -> "delete_one",
         op |-> req.op, kind |-> req.kind, parent |-> req.parent,
         MAKHO |-> order_doc.MAKHO, mahang |-> req.mahang,
         soluong |-> req.soluong, dongia |-> req.dongia,
         old |-> IF req.op = "add" THEN 0 ELSE edit_doc.SOLUONG,
         out |-> ""]

(***************************************************************************)
(* The MongoDB calls of a script run, each a function of the databases and *)
(* the run's own values, giving both after the call.                       *)
(***************************************************************************)
\* add: find_one on the detail collection
FindExisting(branch, d, se) ==
    IF Find(Coll(d, branch, se.kind), DetailKey(se.kind, se.parent, se.mahang)) # {}
    THEN [db |-> d, se |-> Done(se, "duplicate")]
    ELSE [db |-> d,
          se |-> [se EXCEPT !.pc = IF Consuming(se.kind) THEN "find_inv" ELSE "insert"]]

\* (mutant) the stock check lets one unit too many through
CheckStockOffByOne(branch, d, se) ==
    LET available == Available(d, branch, se.MAKHO, se.mahang)
    IN  IF se.soluong > available + 1
        THEN [db |-> d, se |-> Done(se, "insufficient")]
        ELSE [db |-> d, se |-> [se EXCEPT !.pc = "insert"]]

\* (mutant) the stock check is made again until the stock is enough
CheckStockWaits(branch, d, se) ==
    LET available == Available(d, branch, se.MAKHO, se.mahang)
    IN  IF se.soluong > available
        THEN [db |-> d, se |-> se]
        ELSE [db |-> d, se |-> [se EXCEPT !.pc = "insert"]]

\* (mutant) the stock check refuses a request for exactly the available quantity
CheckStockStrict(branch, d, se) ==
    LET available == Available(d, branch, se.MAKHO, se.mahang)
    IN  IF se.soluong >= available
        THEN [db |-> d, se |-> Done(se, "insufficient")]
        ELSE [db |-> d, se |-> [se EXCEPT !.pc = "insert"]]

\* add (order, outbound): find_one on Inventory and the stock check
CheckStock(branch, d, se) ==
    LET available == Available(d, branch, se.MAKHO, se.mahang)
    IN  IF se.soluong > available
        THEN [db |-> d, se |-> Done(se, "insufficient")]
        ELSE [db |-> d, se |-> [se EXCEPT !.pc = "insert"]]

\* (mutant) the refusal of the unique index is swallowed and the run goes on
\* to the ledger update
InsertDetailKeepsGoing(branch, d, se) ==
    LET col == Coll(d, branch, se.kind)
        doc == DetailDoc(se.kind, se.parent, se.mahang, se.soluong, se.dongia)
    IN  IF ViolatesIndex(se.kind, col, doc)
        THEN [db |-> d, se |-> [se EXCEPT !.pc = "inc"]]
        ELSE [db |-> Put(d, branch, se.kind, InsertOne(col, doc)),
              se |-> [se EXCEPT !.pc = "inc"]]

\* add: insert_one of the detail line; the unique index may refuse it
InsertDetail(branch, d, se) ==
    LET col == Coll(d, branch, se.kind)
        doc == DetailDoc(se.kind, se.parent, se.mahang, se.soluong, se.dongia)
    IN  IF ViolatesIndex(se.kind, col, doc)
        THEN [db |-> d, se |-> Done(se, "DuplicateKeyError")]
        ELSE [db |-> Put(d, branch, se.kind, InsertOne(col, doc)),
              se |-> [se EXCEPT !.pc = "inc"]]

\* (mutant) the inbound add updates the ledger without upsert
AdjustOnCreateNoUpsert(branch, d, se) ==
    LET inv == Coll(d, branch, "Inventory")
        delta == IF Consuming(se.kind) THEN -se.soluong ELSE se.soluong
    IN  [db |-> Put(d, branch, "Inventory",
                    IncOne(inv, InvKey(se.MAKHO, se.mahang), delta, FALSE)),
         se |-> Done(se, "ok")]

\* add: update_one on Inventory ($inc by -soluong, or by soluong with upsert)
AdjustOnCreate(branch, d, se) ==
    LET inv == Coll(d, branch, "Inventory")
        delta == IF Consuming(se.kind) THEN -se.soluong ELSE se.soluong
    IN  [db |-> Put(d, branch, "Inventory",
                    IncOne(inv, InvKey(se.MAKHO, se.mahang), delta, ~Consuming(se.kind))),
         se |-> Done(se, "ok")]

\* (mutant) the edit form has no stock check
EditCheckStockSkipped(branch, d, se) ==
    [db |-> d, se |-> [se EXCEPT !.pc = "edit_set"]]

\* (mutant) a stock check that compares the whole new quantity with the ledger
EditCheckStockWholeQuantity(branch, d, se) ==
    LET available == Available(d, branch, se.MAKHO, se.mahang)
    IN  [db |-> d,
         se |-> IF se.soluong > available
                THEN Done(se, "insufficient")
                ELSE [se EXCEPT !.pc = "edit_set"]]

\* edit (order, outbound): find_one on Inventory and the stock check on diff
EditCheckStock(branch, d, se) ==
    LET diff == se.soluong - se.old
        available == Available(d, branch, se.MAKHO, se.mahang)
    IN  IF diff > 0 /\ diff > available
        THEN [db |-> d, se |-> Done(se, "insufficient")]
        ELSE [db |-> d, se |-> [se EXCEPT !.pc = "edit_set"]]

\* (mutant) the edit stores the new quantity and leaves the price alone
EditSetKeepsPrice(branch, d, se) ==
    LET col == Coll(d, branch, se.kind)
        diff == se.soluong - se.old
    IN  [db |-> Put(d, branch, se.kind,
                    SetOne(col, DetailKey(se.kind, se.parent, se.mahang),
                           [SOLUONG |-> se.soluong])),
         se |-> IF diff # 0 THEN [se EXCEPT !.pc = "edit_inc"] ELSE Done(se, "ok")]

\* edit: update_one of the detail line; the ledger follows only when diff != 0
EditSet(branch, d, se) ==
    LET col == Coll(d, branch, se.kind)
        diff == se.soluong - se.old
    IN  [db |-> Put(d, branch, se.kind,
                    SetOne(col, DetailKey(se.kind, se.parent, se.mahang),
                           [SOLUONG |-> se.soluong, DONGIA |-> se.dongia])),
         se |-> IF diff # 0 THEN [se EXCEPT !.pc = "edit_inc"] ELSE Done(se, "ok")]

\* (mutant) the inbound edit subtracts diff as the order edit does
EditAdjustAlwaysSubtracts(branch, d, se) ==
    LET inv == Coll(d, branch, "Inventory")
        diff == se.soluong - se.old
    IN  [db |-> Put(d, branch, "Inventory",
                    IncOne(inv, InvKey(se.MAKHO, se.mahang), -diff, FALSE)),
         se |-> Done(se, "ok")]

\* edit: update_one on Inventory ($inc by -diff, or by diff for inbound)
EditAdjust(branch, d, se) ==
    LET inv == Coll(d, branch, "Inventory")
        diff == se.soluong - se.old
        delta == IF Consuming(se.kind) THEN -diff ELSE diff
    IN  [db |-> Put(d, branch, "Inventory",
                    IncOne(inv, InvKey(se.MAKHO, se.mahang), delta, FALSE)),
         se |-> Done(se, "ok")]

\* delete: delete_one of the detail line
DeleteDetail(branch, d, se) ==
    LET col == Coll(d, branch, se.kind)
    IN  [db |-> Put(d, branch, se.kind,
                    DeleteOne(col, DetailKey(se.kind, se.parent, se.mahang))),
         se |-> [se EXCEPT !.pc = "delete_inc"]]

\* (mutant) the inbound delete adds the quantity back as the order delete does
DeleteAdjustAlwaysAdds(branch, d, se) ==
    LET inv == Coll(d, branch, "Inventory")
    IN  [db |-> Put(d, branch, "Inventory",
                    IncOne(inv, InvKey(se.MAKHO, se.mahang), se.old, FALSE)),
         se |-> Done(se, "ok")]

\* delete: update_one on Inventory ($inc by edit_doc's quantity, negated for inbound)
DeleteAdjust(branch, d, se) ==
    LET inv == Coll(d, branch, "Inventory")
        delta == IF Consuming(se.kind) THEN se.old ELSE -se.old
    IN  [db |-> Put(d, branch, "Inventory",
                    IncOne(inv, InvKey(se.MAKHO, se.mahang), delta, FALSE)),
         se |-> Done(se, "ok")]

\* the next MongoDB call of a run that has not ended
StepS(branch, d, se) ==
    CASE se.pc = "find_existing" -> FindExisting(branch, d, se)
      [] se.pc = "find_inv" -> CheckStock(branch, d, se)
      [] se.pc = "insert" -> InsertDetail(branch, d, se)
      [] se.pc = "inc" -> AdjustOnCreate(branch, d, se)
      [] se.pc = "edit_find_inv" -> EditCheckStock(branch, d, se)
      [] se.pc = "edit_set" -> EditSet(branch, d, se)
      [] se.pc = "edit_inc" -> EditAdjust(branch, d, se)
      [] se.pc = "delete_one" -> DeleteDetail(branch, d, se)
      [] se.pc = "delete_inc" -> DeleteAdjust(branch, d, se)
      [] OTHER -> [db |-> d, se |-> se]

RECURSIVE RunToEnd(_, _)
RunToEnd(branch, r) ==
    IF r.se.pc \in {"done", "idle"} THEN r
    ELSE RunToEnd(branch, StepS(branch, r.db, r.se))

\* a whole script run with no other session's call in between; a form the
\* page does not offer changes nothing
Run(branch, d, req) ==
    IF Offered(branch, d, req)
    THEN RunToEnd(branch, [db |-> d, se |-> BeginS(branch, d, req)])
    ELSE [db |-> d, se |-> Done(Idle, "not offered")]

(***************************************************************************)
(* Initial state: the branch has one order, one inbound receipt and two    *)
(* outbound receipts on warehouse KHO1, no detail lines, and one ledger    *)
(* row.                                                                    *)
(***************************************************************************)
Hdr(kind, id, makho) == (ParentKey(kind) :> id) @@ [MAKHO |-> makho]

DB0 ==
    [server1 |->
        [DatHang |-> SetToBag({Hdr("CTDDH", "DH1", "KHO1")}),
         PhieuNhap |-> SetToBag({Hdr("CTPN", "PN1", "KHO1")}),
         PhieuXuat |-> SetToBag({Hdr("CTPX", "PX1", "KHO1"), Hdr("CTPX", "PX2", "KHO1")}),
         CTDDH |-> EmptyBag, CTPN |-> EmptyBag, CTPX |-> EmptyBag,
         Inventory |-> SetToBag({[MAKHO |-> "KHO1", MAHANG |-> "VT01",
                                  SOLUONG |-> InitStock]})],
     server2 |->
        [DatHang |-> EmptyBag, PhieuNhap |-> EmptyBag, PhieuXuat |-> EmptyBag,
         CTDDH |-> EmptyBag, CTPN |-> EmptyBag, CTPX |-> EmptyBag,
         Inventory |-> SetToBag({[MAKHO |-> "KHO2", MAHANG |-> "VT01",
                                  SOLUONG |-> InitStock]})],
     server3 |->
        [Nhanvien |-> EmptyBag,
         Kho |-> SetToBag({[MAKHO |-> "KHO1", MACN |-> "CN1"],
                           [MAKHO |-> "KHO2", MACN |-> "CN2"]}),
         Vattu |-> SetToBag({[MAHANG |-> "VT01"]}),
         users |-> EmptyBag]]

Init ==
    /\ db = DB0
    /\ sess = [s \in Sessions |-> Idle]
    /\ ops = 0

(***************************************************************************)
(* A second initial state: warehouse KHO3 of branch CN1 was added after    *)
(* the ledger was seeded, so the ledger has no row for it.  The branch has *)
(* an order and an outbound receipt on KHO1 and two inbound receipts on    *)
(* KHO3.                                                                   *)
(***************************************************************************)
DBNewWarehouse ==
    [DB0 EXCEPT
        !.server1.PhieuNhap = SetToBag({Hdr("CTPN", "PN1", "KHO3"),
                                        Hdr("CTPN", "PN2", "KHO3")}),
        !.server1.PhieuXuat = SetToBag({Hdr("CTPX", "PX1", "KHO1")}),
        !.server3.Kho = @ (+) SetToBag({[MAKHO |-> "KHO3", MACN |-> "CN1"]})]

InitNewWarehouse ==
    /\ db = DBNewWarehouse
    /\ sess = [s \in Sessions |-> Idle]
    /\ ops = 0

(***************************************************************************)
(* An initial state in which CN1 has an order and an inbound receipt on    *)
(* KHO1 and no outbound receipt.                                           *)
(***************************************************************************)
DBOrderAndInbound == [DB0 EXCEPT !.server1.PhieuXuat = EmptyBag]

InitOrderAndInbound ==
    /\ db = DBOrderAndInbound
    /\ sess = [s \in Sessions |-> Idle]
    /\ ops = 0

(***************************************************************************)
(* An initial state with an order and an inbound receipt of CN1 on the     *)
(* warehouse KHO3, added after the ledger was seeded and without a ledger  *)
(* row, and an outbound receipt on KHO1.                                   *)
(***************************************************************************)
DBNoLedgerRow ==
    [DB0 EXCEPT
        !.server1.DatHang = SetToBag({Hdr("CTDDH", "DH1", "KHO3")}),
        !.server1.PhieuNhap = SetToBag({Hdr("CTPN", "PN1", "KHO3")}),
        !.server1.PhieuXuat = SetToBag({Hdr("CTPX", "PX1", "KHO1")}),
        !.server3.Kho = @ (+) SetToBag({[MAKHO |-> "KHO3", MACN |-> "CN1"]})]

InitNoLedgerRow ==
    /\ db = DBNoLedgerRow
    /\ sess = [s \in Sessions |-> Idle]
    /\ ops = 0

(***************************************************************************)
(* A fourth initial state, for two branches and two materials: CN1 has an  *)
(* order on KHO1, CN2 an order on KHO2 that has the id of the order of     *)
(* CN1; both ledgers have a row for each material; and one line of one     *)
(* unit of VT01 was added to the order of CN1.                             *)
(***************************************************************************)
DBTwoBranchesNoLine ==
    [DB0 EXCEPT
        !.server1.PhieuNhap = EmptyBag,
        !.server1.PhieuXuat = EmptyBag,
        !.server1.Inventory = @ (+) SetToBag({[MAKHO |-> "KHO1", MAHANG |-> "VT02",
                                               SOLUONG |-> InitStock]}),
        !.server2.DatHang = SetToBag({Hdr("CTDDH", "DH1", "KHO2")}),
        !.server2.Inventory = @ (+) SetToBag({[MAKHO |-> "KHO2", MAHANG |-> "VT02",
                                               SOLUONG |-> InitStock]}),
        !.server3.Vattu = @ (+) SetToBag({[MAHANG |-> "VT02"]})]

DBTwoBranches ==
    Run("CN1", DBTwoBranchesNoLine,
        [op |-> "add", kind |-> "CTDDH", parent |-> "DH1", mahang |-> "VT01",
         soluong |-> 1, dongia |-> 0]).db

\* the sessions of the two-branch model: those of CN1 and one of CN2
BranchSessions == Sessions \cup {"s3"}

InitTwoBranches ==
    /\ db = DBTwoBranches
    /\ sess = [s \in BranchSessions |-> Idle]
    /\ ops = 0

(***************************************************************************)
(* The create form of a header (order, inbound receipt, outbound receipt). *)
(***************************************************************************)
\* the kind of document an id of the model names
KindOfId(id) ==
    CASE id \in {"DH1", "DH2"} -> "CTDDH"
      [] id \in {"PN1", "PN2"} -> "CTPN"
      [] id \in {"PX1", "PX2"} -> "CTPX"

\* the ids typed into the create form: one that is taken and one that is free
CreateIds == {"DH1", "PX1"}

\* find_one on the header collection
FindHeader(branch, d, se) ==
    IF Find(Coll(d, branch, HeaderOf(se.kind)), (ParentKey(se.kind) :> se.parent)) # {}
    THEN [db |-> d, se |-> Done(se, "duplicate")]
    ELSE [db |-> d, se |-> [se EXCEPT !.pc = "hdr_insert"]]

\* (mutant) the insert replaces a stored header that has the id
InsertHeaderReplaces(branch, d, se) ==
    LET col == Coll(d, branch, HeaderOf(se.kind))
        doc == Hdr(se.kind, se.parent, se.MAKHO)
        old == Find(col, (ParentKey(se.kind) :> se.parent))
    IN  [db |-> Put(d, branch, HeaderOf(se.kind),
                    InsertOne([x \in BagToSet(col) \ old |-> col[x]], doc)),
         se |-> Done(se, "ok")]

\* insert_one of the header, in a transaction of its own; an exception is
\* caught and shown
InsertHeader(branch, d, se) ==
    LET col == Coll(d, branch, HeaderOf(se.kind))
        doc == Hdr(se.kind, se.parent, se.MAKHO)
    IN  IF ViolatesIndex(HeaderOf(se.kind), col, doc)
        THEN [db |-> d, se |-> Done(se, "DuplicateKeyError")]
        ELSE [db |-> Put(d, branch, HeaderOf(se.kind), InsertOne(col, doc)),
              se |-> Done(se, "ok")]

(***************************************************************************)
(* A third initial state: the branch of DB0 after an order line and an     *)
(* inbound line of one unit each were added.                               *)
(***************************************************************************)
DBWithLines ==
    LET line(kind, parent) ==
            [op |-> "add", kind |-> kind, parent |-> parent, mahang |-> "VT01",
             soluong |-> 1, dongia |-> 0]
    IN  Run("CN1", Run("CN1", DB0, line("CTDDH", "DH1")).db, line("CTPN", "PN1")).db

InitWithLines ==
    /\ db = DBWithLines
    /\ sess = [s \in Sessions |-> Idle]
    /\ ops = 0

(***************************************************************************)
(* Actions: one per MongoDB call of a script run.                          *)
(***************************************************************************)
\* (mutant) every page works on the branch CN1
BranchIsFirst(s) == "CN1"

Branch(s) == SessionUser(s).branch

Effect(s, r) ==
    /\ db' = r.db
    /\ sess' = [sess EXCEPT ![s] = r.se]

Apply(s, r) == Effect(s, r) /\ UNCHANGED ops

\* a user submits a form: the script run starts and reads the header and the
\* detail lines of the selected document
Begin(s) ==
    /\ sess[s].pc = "idle"
    /\ ops < MaxOps
    /\ \E req \in Requests :
          /\ Offered(Branch(s), db, req)
          /\ sess' = [sess EXCEPT ![s] = BeginS(Branch(s), db, req)]
    /\ ops' = ops + 1
    /\ UNCHANGED db

FindExistingStep(s) ==
    sess[s].pc = "find_existing" /\ Apply(s, FindExisting(Branch(s), db, sess[s]))

CheckStockStep(s) ==
    sess[s].pc = "find_inv" /\ Apply(s, CheckStock(Branch(s), db, sess[s]))

InsertDetailStep(s) ==
    sess[s].pc = "insert" /\ Apply(s, InsertDetail(Branch(s), db, sess[s]))

AdjustOnCreateStep(s) ==
    sess[s].pc = "inc" /\ Apply(s, AdjustOnCreate(Branch(s), db, sess[s]))

EditCheckStockStep(s) ==
    sess[s].pc = "edit_find_inv" /\ Apply(s, EditCheckStock(Branch(s), db, sess[s]))

EditSetStep(s) ==
    sess[s].pc = "edit_set" /\ Apply(s, EditSet(Branch(s), db, sess[s]))

EditAdjustStep(s) ==
    sess[s].pc = "edit_inc" /\ Apply(s, EditAdjust(Branch(s), db, sess[s]))

DeleteDetailStep(s) ==
    sess[s].pc = "delete_one" /\ Apply(s, DeleteDetail(Branch(s), db, sess[s]))

DeleteAdjustStep(s) ==
    sess[s].pc = "delete_inc" /\ Apply(s, DeleteAdjust(Branch(s), db, sess[s]))

\* the script run is over (st.rerun, or the end of the script)
Finish(s) ==
    /\ sess[s].pc = "done"
    /\ sess' = [sess EXCEPT ![s] = Idle]
    /\ UNCHANGED <<db, ops>>

Next ==
    \E s \in Sessions :
        \/ Begin(s)
        \/ FindExistingStep(s)
        \/ CheckStockStep(s)
        \/ InsertDetailStep(s)
        \/ AdjustOnCreateStep(s)
        \/ EditCheckStockStep(s)
        \/ EditSetStep(s)
        \/ EditAdjustStep(s)
        \/ DeleteDetailStep(s)
        \/ DeleteAdjustStep(s)
        \/ Finish(s)

Spec == Init /\ [][Next]_vars

\* the ids typed into the create forms of the three header pages: one order
\* id that is taken and, for each page, one that is free
HeaderIds == {"DH1", "DH2", "PN1", "PX1"}

\* the next MongoDB call of the script run of a session
RunStep(s) ==
    \/ FindExistingStep(s)
    \/ CheckStockStep(s)
    \/ InsertDetailStep(s)
    \/ AdjustOnCreateStep(s)
    \/ EditCheckStockStep(s)
    \/ EditSetStep(s)
    \/ EditAdjustStep(s)
    \/ DeleteDetailStep(s)
    \/ DeleteAdjustStep(s)

\* a script run is a thread of straight-line code and each MongoDB call
\* returns: a run that has a next call makes it
LiveSpec ==
    InitOrderAndInbound /\ [][Next]_vars /\ \A s \in Sessions : WF_vars(RunStep(s))

\* a user submits the create form of a header: the id is typed (one of ids),
\* the warehouse picked among those of the branch
BeginCreateIn(s, ids) ==
    /\ sess[s].pc = "idle"
    /\ ops < MaxOps
    /\ \E id \in ids :
          \E k \in Find(Coll(db, NoBranch, "Kho"), [MACN |-> Branch(s)]) :
              sess' = [sess EXCEPT ![s] =
                          [Idle EXCEPT !.pc = "hdr_find", !.op = "create",
                                       !.kind = KindOfId(id), !.parent = id,
                                       !.MAKHO = k.MAKHO]]
    /\ ops' = ops + 1
    /\ UNCHANGED db

BeginCreate(s) == BeginCreateIn(s, CreateIds)

FindHeaderStep(s) ==
    sess[s].pc = "hdr_find" /\ Apply(s, FindHeader(Branch(s), db, sess[s]))

InsertHeaderStep(s) ==
    sess[s].pc = "hdr_insert" /\ Apply(s, InsertHeader(Branch(s), db, sess[s]))

\* header and detail operations of the sessions of both branches
BranchNext ==
    \E s \in BranchSessions :
        \/ BeginCreate(s)
        \/ FindHeaderStep(s)
        \/ InsertHeaderStep(s)
        \/ Begin(s)
        \/ FindExistingStep(s)
        \/ CheckStockStep(s)
        \/ InsertDetailStep(s)
        \/ AdjustOnCreateStep(s)
        \/ EditCheckStockStep(s)
        \/ EditSetStep(s)
        \/ EditAdjustStep(s)
        \/ DeleteDetailStep(s)
        \/ DeleteAdjustStep(s)
        \/ Finish(s)

BranchSpec == InitTwoBranches /\ [][BranchNext]_vars

\* header creation alone, by the sessions of both branches
HeaderNext ==
    \E s \in BranchSessions :
        \/ BeginCreateIn(s, HeaderIds)
        \/ FindHeaderStep(s)
        \/ InsertHeaderStep(s)
        \/ Finish(s)

HeaderSpec == InitTwoBranches /\ [][HeaderNext]_vars

\* the order ids typed into the create form: one that is taken, one free
OrderIds == {"DH1", "DH2"}

\* creations of orders and detail operations of the sessions of CN1,
\* started on the database in which CN1 has two warehouses
OrderNext ==
    \E s \in Sessions :
        \/ BeginCreateIn(s, OrderIds)
        \/ FindHeaderStep(s)
        \/ InsertHeaderStep(s)
        \/ Begin(s)
        \/ FindExistingStep(s)
        \/ CheckStockStep(s)
        \/ InsertDetailStep(s)
        \/ AdjustOnCreateStep(s)
        \/ EditCheckStockStep(s)
        \/ EditSetStep(s)
        \/ EditAdjustStep(s)
        \/ DeleteDetailStep(s)
        \/ DeleteAdjustStep(s)
        \/ Finish(s)

OrderSpec == InitNewWarehouse /\ [][OrderNext]_vars

(***************************************************************************)
(* The reference pages (employees, warehouses, materials): a save is       *)
(* find_one, then update_one with $set or insert_one; a delete is one      *)
(* delete_one.                                                             *)
(***************************************************************************)
\* str.capitalize() on the role names
Capitalize(role) ==
    CASE role = "CongTy" -> "Congty"
      [] role = "ChiNhanh" -> "Chinhanh"
      [] role = "congty" -> "Congty"
      [] role = "chinhanh" -> "Chinhanh"
      [] role = "user" -> "User"
      [] role = "USER" -> "User"
      [] OTHER -> role

Role(s) == Capitalize(SessionUser(s).role)

RefKinds == {"Nhanvien", "Kho", "Vattu"}

\* the key field of a reference collection
RefKey(kind) == CHOOSE k \in UniqueIndex(kind) : TRUE

\* the name field of a reference collection
RefName(kind) ==
    CASE kind = "Nhanvien" -> "TEN"
      [] kind = "Kho" -> "TENKHO"
      [] kind = "Vattu" -> "TENHANG"

\* the ids typed into the forms of a reference page
TypedIds(kind) ==
    CASE kind = "Nhanvien" -> {"NV01"}
      [] kind = "Kho" -> {"KHO1", "kho1"}
      [] kind = "Vattu" -> {"VT01", "vt01", "VT03"}

\* the names typed into the forms
TypedNames == {"a", "b"}

\* strip().upper() on the typed ids
StripUpper(id) ==
    CASE id = "kho1" -> "KHO1"
      [] id = "vt01" -> "VT01"
      [] OTHER -> id

\* the document of the save form
RefDoc(kind, id, name, selected_branch) ==
    LET doc == (RefKey(kind) :> StripUpper(id)) @@ (RefName(kind) :> name)
    IN  IF kind = "Vattu" THEN doc ELSE doc @@ [MACN |-> selected_branch]

\* the branch of the save form: picked by a Congty user, the user's own
\* branch otherwise
SelectedBranches(s) == IF Role(s) = "Congty" THEN {"CN1", "CN2"} ELSE {Branch(s)}

\* the save form or the delete button of a reference page; the pages show
\* them to the roles Congty and Chinhanh
BeginRef(s) ==
    /\ sess[s].pc = "idle"
    /\ ops < MaxOps
    /\ Role(s) \in {"Congty", "Chinhanh"}
    /\ \E kind \in RefKinds : \E id \in TypedIds(kind) :
          \/ \E name \in TypedNames, selected_branch \in SelectedBranches(s) :
                sess' = [sess EXCEPT ![s] =
                            [doc |-> RefDoc(kind, id, name, selected_branch)]
                            @@ [Idle EXCEPT !.pc = "ref_find", !.op = "save",
                                            !.kind = kind, !.parent = StripUpper(id)]]
          \/ sess' = [sess EXCEPT ![s] =
                          [Idle EXCEPT !.pc = "ref_delete", !.op = "remove",
                                       !.kind = kind, !.parent = StripUpper(id)]]
    /\ ops' = ops + 1
    /\ UNCHANGED db

\* existing = col.find_one({key: doc[key]})
SaveFind(d, se) ==
    IF Find(Coll(d, NoBranch, se.kind), (RefKey(se.kind) :> se.parent)) # {}
    THEN [db |-> d, se |-> [se EXCEPT !.pc = "ref_update"]]
    ELSE [db |-> d, se |-> [se EXCEPT !.pc = "ref_insert"]]

\* (mutant) the update creates the document when none matches
SaveUpdateUpserts(d, se) ==
    LET col == Coll(d, NoBranch, se.kind)
        flt == (RefKey(se.kind) :> se.parent)
    IN  [db |-> Put(d, NoBranch, se.kind,
                    IF Find(col, flt) = {} THEN InsertOne(col, se.doc)
                    ELSE SetOne(col, flt, se.doc)),
         se |-> Done(se, "ok")]

\* col.update_one({key: doc[key]}, {"$set": doc}) and the success message
SaveUpdate(d, se) ==
    LET col == Coll(d, NoBranch, se.kind)
    IN  [db |-> Put(d, NoBranch, se.kind,
                    SetOne(col, (RefKey(se.kind) :> se.parent), se.doc)),
         se |-> Done(se, "ok")]

\* col.insert_one(doc) and the success message, or the exception of the
\* unique index
SaveInsert(d, se) ==
    LET col == Coll(d, NoBranch, se.kind)
    IN  IF ViolatesIndex(se.kind, col, se.doc)
        THEN [db |-> d, se |-> Done(se, "DuplicateKeyError")]
        ELSE [db |-> Put(d, NoBranch, se.kind, InsertOne(col, se.doc)),
              se |-> Done(se, "ok")]

\* col.delete_one({key: id}).deleted_count
RemoveRef(d, se) ==
    LET col == Coll(d, NoBranch, se.kind)
        flt == (RefKey(se.kind) :> se.parent)
    IN  IF Find(col, flt) = {}
        THEN [db |-> d, se |-> Done(se, "not_found")]
        ELSE [db |-> Put(d, NoBranch, se.kind, DeleteOne(col, flt)),
              se |-> Done(se, "ok")]

SaveFindStep(s) == sess[s].pc = "ref_find" /\ Apply(s, SaveFind(db, sess[s]))

SaveUpdateStep(s) == sess[s].pc = "ref_update" /\ Apply(s, SaveUpdate(db, sess[s]))

SaveInsertStep(s) == sess[s].pc = "ref_insert" /\ Apply(s, SaveInsert(db, sess[s]))

RemoveRefStep(s) == sess[s].pc = "ref_delete" /\ Apply(s, RemoveRef(db, sess[s]))

\* the sessions of the reference pages: the two branch managers
RefSessions == {"s1", "s3"}

InitRef ==
    /\ db = DB0
    /\ sess = [s \in RefSessions |-> Idle]
    /\ ops = 0

RefNext ==
    \E s \in RefSessions :
        \/ BeginRef(s)
        \/ SaveFindStep(s)
        \/ SaveUpdateStep(s)
        \/ SaveInsertStep(s)
        \/ RemoveRefStep(s)
        \/ Finish(s)

RefSpec == InitRef /\ [][RefNext]_vars

(***************************************************************************)
(* auth.create_user, called with any arguments: the checks of the role and *)
(* of the branch, the lower-casing of the username, find_one on users and  *)
(* insert_one.                                                             *)
(***************************************************************************)
\* an argument that is None
None == NoBranch

\* the usernames, roles and branches passed to create_user
UsernameArgs == {"admin", "Admin", "u1"}
RoleArgs == {None, "CongTy", "congty", " User ", "Branch"}
UserBranchArgs == {None, "", "cn1"}

\* str.lower() on the usernames
Lower(username) ==
    CASE username = "Admin" -> "admin"
      [] username = "U1" -> "u1"
      [] OTHER -> username

\* str.strip() on the roles
Strip(role) ==
    CASE role = " User " -> "User"
      [] OTHER -> role

\* role.strip().capitalize() if role else None
NormRole(role) == IF role \in {None, ""} THEN None ELSE Capitalize(Strip(role))

\* _hash_password
HashPassword(password) == <<"sha256", password>>

\* user_doc
UserDoc(username, password, role, branch) ==
    LET doc == [username |-> Lower(username),
                password_hash |-> HashPassword(password),
                role |-> NormRole(role)]
    IN  IF NormRole(role) \in {"Chinhanh", "User"}
        THEN doc @@ [branch |-> Upper(branch)] ELSE doc

\* the call of create_user and its two checks of the arguments
CreateUserS(username, password, role, branch) ==
    LET se == [args |-> [username |-> username, role |-> role, branch |-> branch]]
              @@ [Idle EXCEPT !.op = "create_user", !.parent = Lower(username)]
    IN  IF NormRole(role) \notin {"Congty", "Chinhanh", "User"}
        THEN Done(se, "ValueError")
        ELSE IF NormRole(role) \in {"Chinhanh", "User"} /\ branch \in {None, ""}
        THEN Done(se, "ValueError")
        ELSE [doc |-> UserDoc(username, password, role, branch)]
             @@ [se EXCEPT !.pc = "user_find"]

\* (mutant) the username is not looked up before the insert
UserFindSkipped(d, se) == [db |-> d, se |-> [se EXCEPT !.pc = "user_insert"]]

\* users_col.find_one({"username": username})
UserFind(d, se) ==
    IF Find(Coll(d, None, "users"), [username |-> se.parent]) # {}
    THEN [db |-> d, se |-> Done(se, "ValueError")]
    ELSE [db |-> d, se |-> [se EXCEPT !.pc = "user_insert"]]

\* users_col.insert_one(user_doc)
UserInsert(d, se) ==
    LET col == Coll(d, None, "users")
    IN  IF ViolatesIndex("users", col, se.doc)
        THEN [db |-> d, se |-> Done(se, "DuplicateKeyError")]
        ELSE [db |-> Put(d, None, "users", InsertOne(col, se.doc)),
              se |-> Done(se, "ok")]

\* the users collection after bootstrap_users created the administrator
DBUsers ==
    [DB0 EXCEPT !.server3.users = SetToBag({UserDoc("admin", "admin", "CongTy", None)})]

InitUsers ==
    /\ db = DBUsers
    /\ sess = [s \in Sessions |-> Idle]
    /\ ops = 0

BeginCreateUser(s) ==
    /\ sess[s].pc = "idle"
    /\ ops < MaxOps
    /\ \E username \in UsernameArgs, role \in RoleArgs, branch \in UserBranchArgs :
          sess' = [sess EXCEPT ![s] = CreateUserS(username, "password", role, branch)]
    /\ ops' = ops + 1
    /\ UNCHANGED db

UserFindStep(s) == sess[s].pc = "user_find" /\ Apply(s, UserFind(db, sess[s]))

UserInsertStep(s) == sess[s].pc = "user_insert" /\ Apply(s, UserInsert(db, sess[s]))

UsersNext ==
    \E s \in Sessions :
        \/ BeginCreateUser(s)
        \/ UserFindStep(s)
        \/ UserInsertStep(s)
        \/ Finish(s)

UsersSpec == InitUsers /\ [][UsersNext]_vars

(***************************************************************************)
(* The start of main: seed_demo_data and bootstrap_users, each filling a   *)
(* collection that count_documents finds empty.                            *)
(***************************************************************************)
\* the documents seed_demo_data inserts, per database and collection
SeedData ==
    [server1 |-> [Inventory |-> DB0.server1.Inventory],
     server2 |-> [Inventory |-> DB0.server2.Inventory],
     server3 |-> [Nhanvien |-> SetToBag({[MANV |-> "NV01", MACN |-> "CN1"],
                                         [MANV |-> "NV02", MACN |-> "CN2"]}),
                  Kho |-> DB0.server3.Kho,
                  Vattu |-> DB0.server3.Vattu]]

\* the accounts bootstrap_users creates
BootstrapAccounts ==
    SetToBag({UserDoc("admin", "admin", "CongTy", None),
              UserDoc("cn1_mgr", "password", "ChiNhanh", "CN1"),
              UserDoc("cn2_mgr", "password", "ChiNhanh", "CN2"),
              UserDoc("user1", "password", "User", "CN1")})

\* (mutant) the ledger of a branch is seeded again whatever it holds
SeedDemoDataResetsLedger(d) ==
    [d EXCEPT !.server1.Inventory = SeedData.server1.Inventory,
              !.server2.Inventory = SeedData.server2.Inventory,
              !.server3.Nhanvien = IF @ = EmptyBag THEN SeedData.server3.Nhanvien ELSE @,
              !.server3.Kho = IF @ = EmptyBag THEN SeedData.server3.Kho ELSE @,
              !.server3.Vattu = IF @ = EmptyBag THEN SeedData.server3.Vattu ELSE @]

\* seed_demo_data: insert_many into each collection whose count is 0
SeedDemoData(d) ==
    [d EXCEPT !.server1.Inventory = IF @ = EmptyBag THEN SeedData.server1.Inventory ELSE @,
              !.server2.Inventory = IF @ = EmptyBag THEN SeedData.server2.Inventory ELSE @,
              !.server3.Nhanvien = IF @ = EmptyBag THEN SeedData.server3.Nhanvien ELSE @,
              !.server3.Kho = IF @ = EmptyBag THEN SeedData.server3.Kho ELSE @,
              !.server3.Vattu = IF @ = EmptyBag THEN SeedData.server3.Vattu ELSE @]

\* bootstrap_users: the four create_user calls when users has no document
BootstrapUsers(d) ==
    [d EXCEPT !.server3.users = IF @ = EmptyBag THEN BootstrapAccounts ELSE @]

\* a script run starts: main runs seed_demo_data and bootstrap_users
Reseed(s) ==
    /\ sess[s].pc = "idle"
    /\ \A t \in Sessions : sess[t].pc \in {"idle", "done"}
    /\ db' = BootstrapUsers(SeedDemoData(db))
    /\ sess' = [sess EXCEPT ![s] = [Idle EXCEPT !.pc = "done", !.op = "main",
                                                  !.out = "ok"]]
    /\ UNCHANGED ops

(***************************************************************************)
(* The order page and the receipt page by role: a Congty user gets a       *)
(* notice and the page returns; the other roles get the forms.             *)
(***************************************************************************)
\* the sessions: the company administrator, the user of CN1 and the
\* manager of CN2
RoleSessions == {"s0", "s2", "s3"}

InitRoles ==
    /\ db = DBTwoBranches
    /\ sess = [s \in RoleSessions |-> Idle]
    /\ ops = 0

\* a Congty user opens the order page or the receipt page
OpenPage(s) ==
    /\ sess[s].pc = "idle"
    /\ Role(s) = "Congty"
    /\ \E page \in {"show_orders", "show_receipts"} :
          sess' = [sess EXCEPT ![s] =
                      [Idle EXCEPT !.pc = "done", !.op = page,
                                   !.out = "not_supported"]]
    /\ UNCHANGED <<db, ops>>

\* a user of another role submits a form of one of the two pages
SubmitForm(s) == Role(s) # "Congty" /\ (BeginCreate(s) \/ Begin(s))

RoleNext ==
    \E s \in RoleSessions :
        \/ OpenPage(s)
        \/ SubmitForm(s)
        \/ FindHeaderStep(s)
        \/ InsertHeaderStep(s)
        \/ RunStep(s)
        \/ Finish(s)

RoleSpec == InitRoles /\ [][RoleNext]_vars

\* the same script runs, started on the database with the new warehouse
NewWarehouseSpec == InitNewWarehouse /\ [][Next]_vars

(***************************************************************************)
(* The router on its own: a session calls get_collection with any branch   *)
(* argument and any collection name.  The record of the call keeps the     *)
(* collection name in kind, the branch argument in parent and the server   *)
(* (or the ValueError) in out.                                             *)
(***************************************************************************)
\* branch arguments: None, the empty string, the two branches in either case,
\* and codes of no branch
BranchArgs == {NoBranch, "", "CN1", "cn1", "CN2", "cn2", "CN3", "cn3"}

\* collection names: those the router knows and one it does not
CollectionNames == transactional_collections \cup reference_collections \cup {"Logs"}

\* (mutant) a transactional collection is taken from the database of CN1
\* while that holds documents of it, and from that of CN2 otherwise
ResolveByContent(s, branches, names) ==
    /\ sess[s].pc = "idle"
    /\ \E branch \in branches, collection_name \in names :
          sess' = [sess EXCEPT ![s] =
                      [Idle EXCEPT !.pc = "done", !.op = "get_collection",
                                   !.kind = collection_name, !.parent = branch,
                                   !.old = IF ops = 0 THEN 0 ELSE 1,
                                   !.out = IF collection_name \in transactional_collections
                                           THEN IF db.server1[collection_name] # EmptyBag
                                                THEN "server1" ELSE "server2"
                                           ELSE GetCollection(branch, collection_name)]]
    /\ UNCHANGED <<db, ops>>

\* a call of get_collection with arguments from the given sets; the record
\* also keeps, in old, whether a script run had started before the call
ResolveIn(s, branches, names) ==
    /\ sess[s].pc = "idle"
    /\ \E branch \in branches, collection_name \in names :
          sess' = [sess EXCEPT ![s] =
                      [Idle EXCEPT !.pc = "done", !.op = "get_collection",
                                   !.kind = collection_name, !.parent = branch,
                                   !.old = IF ops = 0 THEN 0 ELSE 1,
                                   !.out = GetCollection(branch, collection_name)]]
    /\ UNCHANGED <<db, ops>>

Resolve(s) == ResolveIn(s, BranchArgs, CollectionNames)

RouterNext == \E s \in Sessions : Resolve(s) \/ Finish(s)

RouterSpec == Init /\ [][RouterNext]_vars

(***************************************************************************)
(* One script run at a time: the whole handler is one step.                *)
(***************************************************************************)
\* a form is submitted while no other script run is in progress and its run
\* reaches its end before anything else happens
Handle(s) ==
    /\ sess[s].pc = "idle"
    /\ \A t \in Sessions : sess[t].pc \in {"idle", "done"}
    /\ ops < MaxSeqOps
    /\ \E req \in Requests :
          /\ Offered(Branch(s), db, req)
          /\ Effect(s, Run(Branch(s), db, req))
    /\ ops' = ops + 1

SeqNext == \E s \in Sessions : Handle(s) \/ Finish(s)

SeqSpec == Init /\ [][SeqNext]_vars

\* calls of get_collection between whole script runs, with the argument
\* values the order page passes (the branch of the user or None; the names
\* CTDDH, Inventory and Vattu)
ResolveOnPage(s) ==
    ResolveIn(s, {Branch(s), NoBranch}, {"CTDDH", "Inventory", "Vattu"})

RouterOpsNext == \E s \in Sessions : ResolveOnPage(s) \/ Handle(s) \/ Finish(s)

RouterOpsSpec == Init /\ [][RouterOpsNext]_vars

NewWarehouseSeqSpec == InitNewWarehouse /\ [][SeqNext]_vars

\* detail operations and reference saves and deletes, with the start of main
\* run again between them
SeedNext ==
    \E s \in Sessions :
        \/ Reseed(s)
        \/ Handle(s)
        \/ BeginRef(s)
        \/ SaveFindStep(s)
        \/ SaveUpdateStep(s)
        \/ SaveInsertStep(s)
        \/ RemoveRefStep(s)
        \/ Finish(s)

SeedSpec == InitOrderAndInbound /\ [][SeedNext]_vars

\* one script run at a time, started on the database that has detail lines
LinesSeqSpec == InitWithLines /\ [][SeqNext]_vars

\* interleaved script runs, started with no ledger row for the warehouse
NoLedgerRowSpec == InitNoLedgerRow /\ [][Next]_vars

\* interleaved script runs, started on the database that has detail lines
LinesSpec == InitWithLines /\ [][Next]_vars

(***************************************************************************)
(* Vocabulary of the properties.                                           *)
(***************************************************************************)
\* the number of documents of col that match flt
RowCount(col, flt) == BagCardinality([d \in Find(col, flt) |-> col[d]])

RECURSIVE SumQty(_, _)
\* the total SOLUONG of the documents of col that are in the set S
SumQty(col, S) ==
    IF S = {} THEN 0
    ELSE LET d == CHOOSE x \in S : TRUE
         IN  d.SOLUONG * CopiesIn(d, col) + SumQty(col, S \ {d})

\* the detail lines of a kind for material mahang under headers of warehouse makho
LinesOn(d, branch, kind, makho, mahang) ==
    {x \in BagToSet(Coll(d, branch, kind)) :
        /\ x.MAHANG = mahang
        /\ \E h \in BagToSet(Coll(d, branch, HeaderOf(kind))) :
              h[ParentKey(kind)] = x[ParentKey(kind)] /\ h.MAKHO = makho}

\* what the detail lines say was received minus what they say was taken out
NetOfLines(d, branch, makho, mahang) ==
    SumQty(Coll(d, branch, "CTPN"), LinesOn(d, branch, "CTPN", makho, mahang))
    - SumQty(Coll(d, branch, "CTDDH"), LinesOn(d, branch, "CTDDH", makho, mahang))
    - SumQty(Coll(d, branch, "CTPX"), LinesOn(d, branch, "CTPX", makho, mahang))

ReqOf(se) ==
    [op |-> se.op, kind |-> se.kind, parent |-> se.parent, mahang |-> se.mahang,
     soluong |-> se.soluong, dongia |-> se.dongia]

\* both sessions have each completed exactly one script run since the start
BothRanOnce == ops = 2 /\ \A s \in Sessions : sess[s].pc = "done"

\* the databases after the runs of s and then t, one after the other, from DB0
Serial(s, t) ==
    Run(Branch(t), Run(Branch(s), DB0, ReqOf(sess[s])).db, ReqOf(sess[t])).db

Branches == {"CN1", "CN2"}
Warehouses == {"KHO1", "KHO2", "KHO3"}

\* the two script runs of BothRanOnce were add forms for the same detail key
SameKeyCreates(s, t) ==
    /\ s # t
    /\ BothRanOnce
    /\ sess[s].op = "add" /\ sess[t].op = "add"
    /\ sess[s].kind = sess[t].kind
    /\ sess[s].parent = sess[t].parent
    /\ sess[s].mahang = sess[t].mahang

(***************************************************************************)
(* C1 - a stock-consuming decrement (the ledger update of an order or      *)
(* outbound add, or of an edit that raises the quantity) is applied only   *)
(* when the ledger quantity visible at that moment is at least the amount  *)
(* taken, so no such decrement drives the ledger below zero, whatever the  *)
(* interleaving.                                                           *)
(***************************************************************************)
C1_DecrementWithinVisibleStock ==
    [][\A s \in Sessions :
          LET se == sess[s]
              amount == IF se.pc = "inc" THEN se.soluong ELSE se.soluong - se.old
          IN  (/\ se.pc \in {"inc", "edit_inc"}
               /\ sess'[s].pc = "done"
               /\ Consuming(se.kind)
               /\ amount > 0)
              => /\ Available(db, Branch(s), se.MAKHO, se.mahang) >= amount
                 /\ Available(db', Branch(s), se.MAKHO, se.mahang) >= 0]_vars

(***************************************************************************)
(* C2 - scenario E: two outbound adds on different receipts against the    *)
(* same ledger row, each asking for no more than the stock and together    *)
(* for more than it: exactly one succeeds, the other is refused as         *)
(* insufficient, and the ledger ends at the stock minus the successful     *)
(* request alone.                                                          *)
(***************************************************************************)
C2_ExactlyOneOutboundSucceeds ==
    \A s, t \in Sessions :
        (/\ s # t
         /\ BothRanOnce
         /\ sess[s].op = "add" /\ sess[t].op = "add"
         /\ sess[s].kind = "CTPX" /\ sess[t].kind = "CTPX"
         /\ sess[s].parent # sess[t].parent
         /\ sess[s].MAKHO = sess[t].MAKHO /\ sess[s].mahang = sess[t].mahang
         /\ sess[s].soluong <= InitStock /\ sess[t].soluong <= InitStock
         /\ sess[s].soluong + sess[t].soluong > InitStock)
        => \E u \in {s, t} :
              /\ sess[u].out = "ok"
              /\ \A v \in {s, t} \ {u} : sess[v].out = "insufficient"
              /\ Available(db, Branch(u), sess[u].MAKHO, sess[u].mahang)
                    = InitStock - sess[u].soluong

(***************************************************************************)
(* C3 - two detail operations on the same detail key or the same ledger    *)
(* key are atomic with respect to each other: however their steps          *)
(* interleave, the databases end as if one had run after the other.        *)
(***************************************************************************)
C3_Serializable ==
    \A s, t \in Sessions :
        (/\ s # t
         /\ BothRanOnce
         /\ \/ /\ sess[s].kind = sess[t].kind
               /\ sess[s].parent = sess[t].parent
               /\ sess[s].mahang = sess[t].mahang
            \/ /\ sess[s].MAKHO = sess[t].MAKHO
               /\ sess[s].mahang = sess[t].mahang)
        => (db = Serial(s, t) \/ db = Serial(t, s))

(***************************************************************************)
(* C4 - all or nothing: in every state, between the steps of an operation  *)
(* included, the ledger reflects every detail line that is stored: each    *)
(* ledger quantity is its starting quantity plus the inbound lines minus   *)
(* the order and outbound lines of its warehouse and material.             *)
(***************************************************************************)
C4_LedgerReflectsEveryLine ==
    \A b \in Branches, makho \in Warehouses, mahang \in Materials :
        Available(db, b, makho, mahang)
            = Available(DB0, b, makho, mahang) + NetOfLines(db, b, makho, mahang)

(***************************************************************************)
(* C5 - in each detail collection of each branch there is at most one row  *)
(* for a (parent-id, material-id) pair, in every reachable state.          *)
(***************************************************************************)
C5_UniqueDetailKeys ==
    \A b \in Branches, kind \in DetailKinds :
        \A x \in BagToSet(Coll(db, b, kind)) :
            RowCount(Coll(db, b, kind), DetailKey(kind, x[ParentKey(kind)], x.MAHANG)) = 1

\* two adds raced for one key and the unique index refused the second insert
C5_Witness ==
    \E s \in Sessions :
        /\ sess[s].pc = "done" /\ sess[s].out = "DuplicateKeyError"
        /\ RowCount(Coll(db, Branch(s), sess[s].kind),
                    DetailKey(sess[s].kind, sess[s].parent, sess[s].mahang)) = 1

(***************************************************************************)
(* C6 - an add for a (parent, material) pair that already has a row fails  *)
(* with a duplicate-key error and changes nothing (the row keeps its       *)
(* quantity and price, the ledger its quantity); and when two adds for one *)
(* pair run concurrently, one row is stored, one add succeeds and the      *)
(* ledger is adjusted once, by that row's quantity.                        *)
(***************************************************************************)
AddOf(kind, parent, mahang, soluong, dongia) ==
    [op |-> "add", kind |-> kind, parent |-> parent, mahang |-> mahang,
     soluong |-> soluong, dongia |-> dongia]

C6_DuplicateCreateRejected ==
    /\ \A b \in Branches, kind \in DetailKinds :
          \A x \in BagToSet(Coll(db, b, kind)), q \in Quantities, p \in Prices :
              LET req == AddOf(kind, x[ParentKey(kind)], x.MAHANG, q, p)
                  r == Run(b, db, req)
              IN  Offered(b, db, req) =>
                     /\ r.se.out \in {"duplicate", "DuplicateKeyError"}
                     /\ r.db = db
    /\ \A s, t \in Sessions :
          (/\ SameKeyCreates(s, t)
           /\ Consuming(sess[s].kind) =>
                 (sess[s].soluong <= InitStock \/ sess[t].soluong <= InitStock))
          => LET col == Coll(db, Branch(s), sess[s].kind)
                 key == DetailKey(sess[s].kind, sess[s].parent, sess[s].mahang)
                 sign == IF Consuming(sess[s].kind) THEN -1 ELSE 1
             IN  /\ RowCount(col, key) = 1
                 /\ Cardinality({u \in {s, t} : sess[u].out = "ok"}) = 1
                 /\ \A u \in {s, t} :
                       sess[u].out = "ok" =>
                          /\ Find(col, key) = {DetailDoc(sess[u].kind, sess[u].parent,
                                 sess[u].mahang, sess[u].soluong, sess[u].dongia)}
                          /\ Available(db, Branch(u), sess[u].MAKHO, sess[u].mahang)
                                = InitStock + sign * sess[u].soluong
                 /\ \A u \in {s, t} :
                       sess[u].out \in
                          {"ok", "duplicate", "DuplicateKeyError", "insufficient"}

\* two adds for one pair overlapped: one stored its row, the unique index
\* refused the other
C6_Witness ==
    \E s, t \in Sessions :
        /\ SameKeyCreates(s, t)
        /\ sess[s].out = "ok"
        /\ sess[t].out = "DuplicateKeyError"

\* the step is a whole script run of session s (one script run at a time)
Handled(s) == sess[s].pc = "idle" /\ sess'[s].pc = "done"

\* the row of a detail key
RowOf(d, branch, kind, parent, mahang) ==
    Find(Coll(d, branch, kind), DetailKey(kind, parent, mahang))

(***************************************************************************)
(* C7 - an order or outbound add that asks for more than the ledger        *)
(* quantity of (header warehouse, material) fails as insufficient and      *)
(* changes nothing.  As the claim states it, for every such add:           *)
(***************************************************************************)
C7_AnyShortCreateIsInsufficient ==
    [][\A s \in Sessions :
          (/\ Handled(s)
           /\ sess'[s].op = "add"
           /\ Consuming(sess'[s].kind)
           /\ sess'[s].soluong
                 > Available(db, Branch(s), sess'[s].MAKHO, sess'[s].mahang))
          => (sess'[s].out = "insufficient" /\ db' = db)]_vars

(***************************************************************************)
(* C7 as amended - an order or outbound add for a (parent, material) pair  *)
(* that has no row yet and that asks for more than the ledger quantity     *)
(* fails as insufficient and changes nothing: no row is stored, the ledger *)
(* keeps its quantity.  (For a pair that has a row the add fails as a      *)
(* duplicate instead, and changes nothing either.)                         *)
(***************************************************************************)
C7_ShortCreateRejected ==
    [][\A s \in Sessions :
          (/\ Handled(s)
           /\ sess'[s].op = "add"
           /\ Consuming(sess'[s].kind)
           /\ sess'[s].soluong
                 > Available(db, Branch(s), sess'[s].MAKHO, sess'[s].mahang))
          => /\ db' = db
             /\ RowOf(db, Branch(s), sess'[s].kind, sess'[s].parent, sess'[s].mahang) = {}
                   => sess'[s].out = "insufficient"
             /\ RowOf(db, Branch(s), sess'[s].kind, sess'[s].parent, sess'[s].mahang) # {}
                   => sess'[s].out = "duplicate"]_vars

\* an add for a new pair was refused as insufficient
C7_Witness ==
    \E s \in Sessions :
        /\ sess[s].pc = "done" /\ sess[s].op = "add" /\ Consuming(sess[s].kind)
        /\ sess[s].out = "insufficient"
        /\ sess[s].soluong > Available(db, Branch(s), sess[s].MAKHO, sess[s].mahang)
        /\ RowOf(db, Branch(s), sess[s].kind, sess[s].parent, sess[s].mahang) = {}

(***************************************************************************)
(* C8 - an edit of an order or outbound line whose delta (new quantity     *)
(* minus old) is positive and greater than the ledger quantity fails as    *)
(* insufficient and changes nothing: the line keeps its quantity and       *)
(* price, the ledger its quantity.                                         *)
(***************************************************************************)
C8_ShortEditRejected ==
    [][\A s \in Sessions :
          (/\ Handled(s)
           /\ sess'[s].op = "edit"
           /\ Consuming(sess'[s].kind)
           /\ sess'[s].soluong - sess'[s].old > 0
           /\ sess'[s].soluong - sess'[s].old
                 > Available(db, Branch(s), sess'[s].MAKHO, sess'[s].mahang))
          => (sess'[s].out = "insufficient" /\ db' = db)]_vars

\* an edit that raises the quantity by more than the stock was refused and
\* the line still has its old quantity
C8_Witness ==
    \E s \in Sessions :
        /\ sess[s].pc = "done" /\ sess[s].op = "edit" /\ Consuming(sess[s].kind)
        /\ sess[s].out = "insufficient"
        /\ sess[s].soluong - sess[s].old
              > Available(db, Branch(s), sess[s].MAKHO, sess[s].mahang)
        /\ \E x \in RowOf(db, Branch(s), sess[s].kind, sess[s].parent, sess[s].mahang) :
              x.SOLUONG = sess[s].old

(***************************************************************************)
(* C9 - round trip: for every detail kind and every quantity for which the *)
(* add succeeds, the add followed by the delete of that line, with nothing *)
(* else in between, brings the ledger quantity of (header warehouse,       *)
(* material) back to what it was before the add.  The round trip starts   *)
(* from the databases of every reachable state in which no script run has  *)
(* a result on display (every database the model reaches is the database   *)
(* of such a state).                                                       *)
(***************************************************************************)
DeleteOf(req) == [req EXCEPT !.op = "delete", !.soluong = 0, !.dongia = 0]

\* no script run is under way and none has a result on display
Quiescent == \A s \in Sessions : sess[s].pc = "idle"

C9_CreateDeleteRoundTrip ==
    Quiescent =>
        \A b \in Branches, req \in Requests :
            (req.op = "add" /\ Offered(b, db, req)) =>
                LET r1 == Run(b, db, req)
                    r2 == Run(b, r1.db, DeleteOf(req))
                IN  r1.se.out = "ok" =>
                       /\ r2.se.out = "ok"
                       /\ Available(r2.db, b, r1.se.MAKHO, req.mahang)
                             = Available(db, b, r1.se.MAKHO, req.mahang)

\* a line was added and then deleted, and the ledger is back at its start
C9_Witness ==
    /\ ops = 2
    /\ \E s \in Sessions :
          /\ sess[s].pc = "done" /\ sess[s].op = "delete" /\ sess[s].out = "ok"
          /\ sess[s].old > 0
          /\ \A k \in DetailKinds : Coll(db, Branch(s), k) = EmptyBag
          /\ Available(db, Branch(s), sess[s].MAKHO, sess[s].mahang) = InitStock

(***************************************************************************)
(* C10 - rollback: for every detail kind, a successful add, then any       *)
(* number of successful edits of the line's quantity, then its delete,     *)
(* leave the ledger quantity as if the line had never been added, and no   *)
(* row for the (parent, material) pair.  The sequence starts from the      *)
(* databases of every reachable state in which no script run has a result  *)
(* on display.                                                             *)
(***************************************************************************)
\* longest run of edits between the add and the delete
MaxEdits == 2

\* the databases one successful edit of the line of req leads to from ds
EditedOnce(b, ds, req) ==
    {r.db : r \in {x \in {Run(b, d, [req EXCEPT !.op = "edit", !.soluong = q]) :
                                d \in ds, q \in Quantities} : x.se.out = "ok"}}

RECURSIVE AfterEdits(_, _, _, _)
\* the databases that at most n successful edits of the line of req lead to
\* from the databases ds
AfterEdits(b, ds, req, n) ==
    IF n = 0 THEN ds
    ELSE AfterEdits(b, ds \cup EditedOnce(b, ds, req), req, n - 1)

C10_CreateEditDeleteNetZero ==
    Quiescent =>
        \A b \in Branches, req \in Requests :
            (req.op = "add" /\ Offered(b, db, req)) =>
                LET r1 == Run(b, db, req)
                IN  r1.se.out = "ok" =>
                       \A d2 \in AfterEdits(b, {r1.db}, req, MaxEdits) :
                           LET r3 == Run(b, d2, DeleteOf(req))
                           IN  /\ r3.se.out = "ok"
                               /\ Available(r3.db, b, r1.se.MAKHO, req.mahang)
                                     = Available(db, b, r1.se.MAKHO, req.mahang)
                               /\ RowOf(r3.db, b, req.kind, req.parent, req.mahang) = {}

\* a line was added, its quantity edited, and the line deleted: no line is
\* left and the ledger is back at its start
C10_Witness ==
    /\ ops = 3
    /\ \E s, t \in Sessions :
          /\ sess[t].pc = "done" /\ sess[t].op = "edit" /\ sess[t].out = "ok"
          /\ sess[t].soluong # sess[t].old
          /\ sess[s].pc = "done" /\ sess[s].op = "delete" /\ sess[s].out = "ok"
          /\ sess[s].kind = sess[t].kind /\ sess[s].parent = sess[t].parent
          /\ sess[s].mahang = sess[t].mahang
          /\ sess[s].old = sess[t].soluong
          /\ \A k \in DetailKinds : Coll(db, Branch(s), k) = EmptyBag
          /\ Available(db, Branch(s), sess[s].MAKHO, sess[s].mahang) = InitStock

(***************************************************************************)
(* C11 - the only steps that lower a ledger quantity are checked           *)
(* decrements: whenever a step lowers the quantity of a (warehouse,        *)
(* material) row, it is the ledger update of an order or outbound add or   *)
(* edit, that is, of a run that compared the amount taken with the         *)
(* available quantity before writing.                                      *)
(***************************************************************************)
C11_EveryDecreaseIsChecked ==
    [][\A b \in Branches, makho \in Warehouses, mahang \in Materials :
          Available(db', b, makho, mahang) < Available(db, b, makho, mahang)
          => \E s \in Sessions :
                /\ sess[s].pc \in {"inc", "edit_inc"}
                /\ sess'[s].pc = "done"
                /\ Consuming(sess[s].kind)
                /\ Branch(s) = b /\ sess[s].MAKHO = makho /\ sess[s].mahang = mahang]_vars

(***************************************************************************)
(* C12 - an order or outbound add for a (parent, material) pair that has   *)
(* no row succeeds exactly when the requested quantity is at most the      *)
(* ledger quantity of (header warehouse, material); when it succeeds, the  *)
(* detail collection gains exactly the one row with the requested quantity *)
(* and price and the ledger quantity goes down by the requested quantity   *)
(* (to 0 when the request equals the stock); otherwise it is refused as    *)
(* insufficient.                                                           *)
(***************************************************************************)
C12_CreateSucceedsIffEnough ==
    [][\A s \in Sessions :
          LET se == sess'[s]
              b == Branch(s)
              available == Available(db, b, se.MAKHO, se.mahang)
          IN  (/\ Handled(s)
               /\ se.op = "add"
               /\ Consuming(se.kind)
               /\ RowOf(db, b, se.kind, se.parent, se.mahang) = {})
              => /\ se.out = "ok" <=> se.soluong <= available
                 /\ se.out # "ok" => se.out = "insufficient"
                 /\ se.out = "ok" =>
                       /\ Coll(db', b, se.kind)
                             = Coll(db, b, se.kind)
                                  (+) SetToBag({DetailDoc(se.kind, se.parent, se.mahang,
                                                          se.soluong, se.dongia)})
                       /\ Available(db', b, se.MAKHO, se.mahang)
                             = available - se.soluong]_vars

\* the first add asked for the whole stock: it succeeded, its row is stored
\* and the ledger is at 0
C12_Witness ==
    /\ ops = 1
    /\ \E s \in Sessions :
          /\ sess[s].pc = "done" /\ sess[s].op = "add" /\ Consuming(sess[s].kind)
          /\ sess[s].out = "ok"
          /\ sess[s].soluong = InitStock
          /\ Available(db, Branch(s), sess[s].MAKHO, sess[s].mahang) = 0
          /\ RowOf(db, Branch(s), sess[s].kind, sess[s].parent, sess[s].mahang)
                = {DetailDoc(sess[s].kind, sess[s].parent, sess[s].mahang,
                             sess[s].soluong, sess[s].dongia)}

(***************************************************************************)
(* C13 - an inbound add for a (receipt, material) pair that has no row     *)
(* always succeeds, whatever the ledger holds: the detail collection gains *)
(* exactly that row and the ledger quantity of (receipt warehouse,         *)
(* material) goes up by the row's quantity; when the ledger has no row for *)
(* the key, one row is created whose quantity is the row's quantity.       *)
(***************************************************************************)
C13_InboundCreateAlwaysSucceeds ==
    [][\A s \in Sessions :
          LET se == sess'[s]
              b == Branch(s)
              key == InvKey(se.MAKHO, se.mahang)
          IN  (/\ Handled(s)
               /\ se.op = "add"
               /\ se.kind = "CTPN"
               /\ RowOf(db, b, se.kind, se.parent, se.mahang) = {})
              => /\ se.out = "ok"
                 /\ Coll(db', b, se.kind)
                       = Coll(db, b, se.kind)
                            (+) SetToBag({DetailDoc(se.kind, se.parent, se.mahang,
                                                    se.soluong, se.dongia)})
                 /\ Available(db', b, se.MAKHO, se.mahang)
                       = Available(db, b, se.MAKHO, se.mahang) + se.soluong
                 /\ RowCount(Coll(db', b, "Inventory"), key) = 1
                 /\ Find(Coll(db, b, "Inventory"), key) = {}
                       => Coll(db', b, "Inventory")
                             = Coll(db, b, "Inventory")
                                  (+) SetToBag({key @@ [SOLUONG |-> se.soluong]})]_vars

\* the first inbound add on the new warehouse created its ledger row
C13_Witness ==
    /\ ops = 1
    /\ \E s \in Sessions :
          /\ sess[s].pc = "done" /\ sess[s].op = "add" /\ sess[s].kind = "CTPN"
          /\ sess[s].out = "ok"
          /\ Find(Coll(DBNewWarehouse, Branch(s), "Inventory"),
                  InvKey(sess[s].MAKHO, sess[s].mahang)) = {}
          /\ Find(Coll(db, Branch(s), "Inventory"), InvKey(sess[s].MAKHO, sess[s].mahang))
                = {InvKey(sess[s].MAKHO, sess[s].mahang) @@ [SOLUONG |-> sess[s].soluong]}

\* from databases d to e, only the collections named in names, of the
\* partition of branch, may differ
OnlyChanged(d, e, branch, names) ==
    \A srv \in Servers :
        \A c \in DOMAIN d[srv] :
            (c \notin names \/ srv # GetCollection(branch, c)) => e[srv][c] = d[srv][c]

\* from databases d to e, every ledger row of the branch other than the one
\* of (makho, mahang) is the same
OtherLedgerRowsSame(d, e, branch, makho, mahang) ==
    LET inv == Coll(d, branch, "Inventory")
        inw == Coll(e, branch, "Inventory")
    IN  \A i \in BagToSet(inv) \cup BagToSet(inw) :
            (i.MAKHO # makho \/ i.MAHANG # mahang) => CopiesIn(i, inv) = CopiesIn(i, inw)

(***************************************************************************)
(* C14 - a successful edit of a detail line stores the new quantity and    *)
(* the new price in that line and moves the ledger quantity of (header     *)
(* warehouse, material) by delta = new quantity - old quantity, down for   *)
(* order and outbound lines and up for inbound lines; every other detail   *)
(* line, every other ledger row and every other collection stays as it is. *)
(***************************************************************************)
C14_EditAppliesDelta ==
    [][\A s \in Sessions :
          LET se == sess'[s]
              b == Branch(s)
          IN  (Handled(s) /\ se.op = "edit" /\ se.out = "ok")
              => \E x \in RowOf(db, b, se.kind, se.parent, se.mahang) :
                    LET delta == se.soluong - x.SOLUONG
                        y == DetailDoc(se.kind, se.parent, se.mahang, se.soluong, se.dongia)
                    IN  /\ Coll(db', b, se.kind)
                              = (Coll(db, b, se.kind) (-) SetToBag({x})) (+) SetToBag({y})
                        /\ Available(db', b, se.MAKHO, se.mahang)
                              = Available(db, b, se.MAKHO, se.mahang)
                                   + (IF Consuming(se.kind) THEN -delta ELSE delta)
                        /\ OtherLedgerRowsSame(db, db', b, se.MAKHO, se.mahang)
                        /\ OnlyChanged(db, db', b, {se.kind, "Inventory"})]_vars

\* a line was edited to another quantity while the branch had another detail
\* line and another ledger row
C14_Witness ==
    \E s \in Sessions :
        /\ sess[s].pc = "done" /\ sess[s].op = "edit" /\ sess[s].out = "ok"
        /\ sess[s].soluong # sess[s].old
        /\ RowOf(db, Branch(s), sess[s].kind, sess[s].parent, sess[s].mahang)
              = {DetailDoc(sess[s].kind, sess[s].parent, sess[s].mahang,
                           sess[s].soluong, sess[s].dongia)}
        /\ \E i \in BagToSet(Coll(db, Branch(s), "Inventory")) : i.MAKHO # sess[s].MAKHO
        /\ \E k \in DetailKinds : \E x \in BagToSet(Coll(db, Branch(s), k)) :
              k # sess[s].kind \/ x[ParentKey(k)] # sess[s].parent

(***************************************************************************)
(* C15 - an edit whose detail line is not stored when the edit is applied  *)
(* (it was deleted by another session after the page listed it) ends with  *)
(* a not-found error and changes nothing: every step such an edit takes    *)
(* from its update of the line on leaves the databases as they are and     *)
(* ends the run with the error.                                            *)
(***************************************************************************)
C15_EditOfMissingLineFails ==
    [][\A s \in Sessions :
          (/\ sess[s].op = "edit"
           /\ sess[s].pc \in {"edit_set", "edit_inc"}
           /\ sess'[s] # sess[s]
           /\ RowOf(db, Branch(s), sess[s].kind, sess[s].parent, sess[s].mahang) = {})
          => /\ db' = db
             /\ sess'[s].pc = "done"
             /\ sess'[s].out = "NotFoundError"]_vars

(***************************************************************************)
(* C16 - a delete reverses the ledger once per stored line: when two       *)
(* sessions delete the same line concurrently, the line is removed and the *)
(* ledger quantity of its key is the starting quantity with the line's     *)
(* quantity reversed once (added back for an order or outbound line, taken *)
(* off for an inbound line); the delete that finds the line gone changes   *)
(* no ledger quantity.                                                     *)
(***************************************************************************)
C16_DeleteReversesOnce ==
    \A s, t \in Sessions :
        (/\ s # t
         /\ BothRanOnce
         /\ sess[s].op = "delete" /\ sess[t].op = "delete"
         /\ sess[s].kind = sess[t].kind
         /\ sess[s].parent = sess[t].parent
         /\ sess[s].mahang = sess[t].mahang)
        => \A x \in RowOf(DBWithLines, Branch(s), sess[s].kind, sess[s].parent,
                          sess[s].mahang) :
              /\ RowOf(db, Branch(s), sess[s].kind, sess[s].parent, sess[s].mahang) = {}
              /\ Available(db, Branch(s), sess[s].MAKHO, sess[s].mahang)
                    = Available(DBWithLines, Branch(s), sess[s].MAKHO, sess[s].mahang)
                         + (IF Consuming(sess[s].kind) THEN x.SOLUONG ELSE -x.SOLUONG)

\* the amount by which the run of se adjusts the ledger
Adjustment(se) ==
    LET d == CASE se.op = "add" -> se.soluong
               [] se.op = "edit" -> se.soluong - se.old
               [] se.op = "delete" -> -se.old
    IN  IF Consuming(se.kind) THEN -d ELSE d

(***************************************************************************)
(* C17 - concurrent adjustments of one ledger key lose no update: there is *)
(* never more than one ledger row for a (warehouse, material) key, and     *)
(* when two script runs that adjust the same key have both completed, in   *)
(* whatever interleaving, the ledger quantity is the quantity before them  *)
(* plus the two adjustments (a first-touch upsert counting from 0).        *)
(***************************************************************************)
C17_NoLostAdjustment ==
    /\ \A b \in Branches, makho \in Warehouses, mahang \in Materials :
          RowCount(Coll(db, b, "Inventory"), InvKey(makho, mahang)) <= 1
    /\ \A s, t \in Sessions :
          (/\ s # t
           /\ BothRanOnce
           /\ sess[s].out = "ok" /\ sess[t].out = "ok"
           /\ sess[s].MAKHO = sess[t].MAKHO /\ sess[s].mahang = sess[t].mahang)
          => Available(db, Branch(s), sess[s].MAKHO, sess[s].mahang)
                = Available(DBNewWarehouse, Branch(s), sess[s].MAKHO, sess[s].mahang)
                     + Adjustment(sess[s]) + Adjustment(sess[t])

\* the header a script run works under, as stored
HeaderDoc(d, branch, se) ==
    FindOne(Coll(d, branch, HeaderOf(se.kind)), (ParentKey(se.kind) :> se.parent))

(***************************************************************************)
(* C18 - the ledger key of a detail operation is (warehouse of its parent  *)
(* header, material): no step of an add, edit or delete under header H     *)
(* changes a ledger row other than that of (H.MAKHO, material), in its own *)
(* branch or in another.                                                   *)
(***************************************************************************)
C18_LedgerKeyIsHeaderWarehouse ==
    [][\A s \in Sessions :
          (sess[s].pc \notin {"idle", "done"} /\ sess'[s] # sess[s])
          => LET h == HeaderDoc(db, Branch(s), sess[s])
             IN  /\ OtherLedgerRowsSame(db, db', Branch(s), h.MAKHO, sess[s].mahang)
                 /\ \A b \in Branches \ {Branch(s)} :
                       Coll(db', b, "Inventory") = Coll(db, b, "Inventory")]_vars

\* an inbound add under a receipt of warehouse KHO3 has moved the ledger
\* of KHO3 and left that of KHO1 alone, and an order add under an order of
\* KHO1 has moved the ledger of KHO1
C18_Witness ==
    /\ BothRanOnce
    /\ \E s, t \in Sessions :
          /\ sess[s].op = "add" /\ sess[s].kind = "CTPN" /\ sess[s].out = "ok"
          /\ HeaderDoc(db, Branch(s), sess[s]).MAKHO = "KHO3"
          /\ Available(db, Branch(s), "KHO3", sess[s].mahang) = sess[s].soluong
          /\ sess[t].op = "add" /\ sess[t].kind = "CTDDH" /\ sess[t].out = "ok"
          /\ HeaderDoc(db, Branch(t), sess[t]).MAKHO = "KHO1"
          /\ Available(db, Branch(t), "KHO1", sess[t].mahang)
                = InitStock - sess[t].soluong

\* the databases after the runs of s and then t, one after the other, from d
SerialFrom(d, s, t) ==
    Run(Branch(t), Run(Branch(s), d, ReqOf(sess[s])).db, ReqOf(sess[t])).db

\* no step of a session changes a collection of another branch
BranchesIsolated ==
    \A s \in BranchSessions :
        sess'[s] # sess[s]
        => \A b \in Branches \ {Branch(s)} :
              \A c \in transactional_collections : Coll(db', b, c) = Coll(db, b, c)

\* two completed detail operations of one branch on different materials
\* leave the databases that either serial order leaves
MaterialsCommute ==
    \A s, t \in Sessions :
        (/\ s # t
         /\ BothRanOnce
         /\ sess[s].op \in {"add", "edit", "delete"}
         /\ sess[t].op \in {"add", "edit", "delete"}
         /\ Branch(s) = Branch(t)
         /\ sess[s].mahang # sess[t].mahang)
        => /\ db = SerialFrom(DBTwoBranches, s, t)
           /\ db = SerialFrom(DBTwoBranches, t, s)

(***************************************************************************)
(* C19 - branches do not affect each other: no step of a header or detail  *)
(* operation of a session of one branch changes a header, detail or ledger *)
(* collection of the other branch; and detail operations of one branch on  *)
(* different materials commute: however their steps interleave, the        *)
(* databases end as after either serial order.                             *)
(***************************************************************************)
C19_BranchesIsolatedMaterialsCommute ==
    [][BranchesIsolated]_vars /\ []MaterialsCommute

\* a session of CN1 and the session of CN2 have each added a line to the
\* order DH1 of their own branch, and each ledger has moved by its own line
C19_Witness ==
    /\ ops = 2
    /\ LET s == "s1"
           t == "s3"
       IN  /\ sess[s].pc = "done" /\ sess[s].op = "add" /\ sess[s].out = "ok"
           /\ sess[t].pc = "done" /\ sess[t].op = "add" /\ sess[t].out = "ok"
           /\ sess[s].parent = "DH1" /\ sess[t].parent = "DH1"
           /\ sess[s].mahang = sess[t].mahang
           /\ Available(db, "CN1", "KHO1", sess[s].mahang)
                 = Available(DBTwoBranches, "CN1", "KHO1", sess[s].mahang) - sess[s].soluong
           /\ Available(db, "CN2", "KHO2", sess[t].mahang)
                 = Available(DBTwoBranches, "CN2", "KHO2", sess[t].mahang) - sess[t].soluong

(***************************************************************************)
(* C20 - get_collection for a reference collection (Nhanvien, Kho, Vattu,  *)
(* users) gives the collection of the shared database server3 for every    *)
(* branch argument, None, the empty string and the code of no branch       *)
(* included, and never raises.                                             *)
(***************************************************************************)
C20_ReferenceResolvesToShared ==
    /\ \A branch \in BranchArgs, collection_name \in reference_collections :
          GetCollection(branch, collection_name) = "server3"
    /\ \A s \in Sessions :
          (sess[s].op = "get_collection" /\ sess[s].kind \in reference_collections)
          => sess[s].out = "server3"

\* the two sessions resolved reference collections, one for the code of no
\* branch and one for None, and both got the shared database
C20_Witness ==
    \E s, t \in Sessions :
        /\ sess[s].op = "get_collection" /\ sess[t].op = "get_collection"
        /\ sess[s].kind \in reference_collections /\ sess[t].kind \in reference_collections
        /\ sess[s].parent = "CN3" /\ sess[t].parent = NoBranch
        /\ sess[s].out = "server3" /\ sess[t].out = "server3"

C22_UnknownCollectionFails ==
    \A s \in Sessions :
        (/\ sess[s].op = "get_collection"
         /\ sess[s].kind \notin reference_collections \cup transactional_collections)
        => sess[s].out = "ValueError"

C24_NoRowMeansZero ==
    [][\A s \in Sessions :
          (/\ sess[s].pc = "find_inv"
           /\ sess'[s] # sess[s]
           /\ Find(Coll(db, Branch(s), "Inventory"),
                   InvKey(sess[s].MAKHO, sess[s].mahang)) = {})
          => /\ Available(db, Branch(s), sess[s].MAKHO, sess[s].mahang) = 0
             /\ sess[s].soluong >= 1
             /\ sess'[s].pc = "done"
             /\ sess'[s].out = "insufficient"
             /\ db' = db]_vars

\* a create of one unit on the order of KHO3 ended
\* as insufficient, and the ledger still has no row for its pair
C24_Witness ==
    \E s \in Sessions :
        /\ sess[s].pc = "done" /\ sess[s].op = "add" /\ Consuming(sess[s].kind)
        /\ sess[s].soluong = 1
        /\ sess[s].out = "insufficient"
        /\ Find(Coll(db, Branch(s), "Inventory"),
                InvKey(sess[s].MAKHO, sess[s].mahang)) = {}

\* the headers of a branch that have the id
HeadersOf(d, branch, kind, id) ==
    Find(Coll(d, branch, HeaderOf(kind)), (ParentKey(kind) :> id))

\* the number of headers of a branch that have the id
HeaderCount(d, branch, kind, id) ==
    RowCount(Coll(d, branch, HeaderOf(kind)), (ParentKey(kind) :> id))

\* a step of a header creation of session s
CreateStep(s) ==
    /\ sess[s].op = "create" /\ sess[s].pc \in {"hdr_find", "hdr_insert"}
    /\ sess'[s] # sess[s]

(***************************************************************************)
(* C25: a header creation whose id is already stored in the collection of  *)
(* the branch is rejected and leaves every collection as it was; otherwise *)
(* it adds exactly its header; no step of a header creation changes a      *)
(* detail collection or the ledger of any branch; a branch never holds two *)
(* headers of one id; and when two creations of one branch with the same   *)
(* id have both ended, at most one of them succeeded and the branch holds  *)
(* exactly one header of that id.                                          *)
(***************************************************************************)
C25_HeaderCreateChecksId ==
    /\ [][\A s \in BranchSessions :
            CreateStep(s) =>
               LET se == sess[s]
                   b == Branch(s)
                   h == HeaderOf(se.kind)
               IN  /\ \A srv \in {"server1", "server2"} :
                         \A c \in DetailKinds \cup {"Inventory"} :
                             db'[srv][c] = db[srv][c]
                   /\ db'.server3 = db.server3
                   /\ HeadersOf(db, b, se.kind, se.parent) # {}
                         => /\ db' = db
                            /\ sess'[s].pc = "done"
                            /\ sess'[s].out \in {"duplicate", "DuplicateKeyError"}
                   /\ sess'[s].out = "ok"
                         => /\ HeadersOf(db, b, se.kind, se.parent) = {}
                            /\ Coll(db', b, h)
                                  = Coll(db, b, h)
                                       (+) SetToBag({Hdr(se.kind, se.parent, se.MAKHO)})
                   /\ sess'[s].out # "ok" => db' = db]_vars
    /\ [](\A b \in Branches, id \in HeaderIds :
            HeaderCount(db, b, KindOfId(id), id) <= 1)
    /\ [](\A s, t \in BranchSessions :
            (/\ s # t /\ Branch(s) = Branch(t)
             /\ sess[s].pc = "done" /\ sess[s].op = "create"
             /\ sess[t].pc = "done" /\ sess[t].op = "create"
             /\ sess[s].parent = sess[t].parent)
            => /\ ~(sess[s].out = "ok" /\ sess[t].out = "ok")
               /\ HeaderCount(db, Branch(s), sess[s].kind, sess[s].parent) = 1)

\* two sessions of CN1 created the inbound receipt PN1 concurrently: both
\* found the id free, one insert succeeded and the unique index refused the
\* other
C25_Witness ==
    \E s, t \in BranchSessions :
        /\ s # t /\ Branch(s) = Branch(t)
        /\ sess[s].pc = "done" /\ sess[s].op = "create" /\ sess[s].parent = "PN1"
        /\ sess[t].pc = "done" /\ sess[t].op = "create" /\ sess[t].parent = "PN1"
        /\ sess[s].out = "ok"
        /\ sess[t].out = "DuplicateKeyError"
        /\ HeaderCount(db, Branch(s), "CTPN", "PN1") = 1

(***************************************************************************)
(* C26: an order header, once stored, stays as it is: every step leaves    *)
(* each stored order header of each branch in its collection, with every   *)
(* field as it was, and no second header of its id appears; so the         *)
(* warehouse that a script run on a line of the order read at its start is *)
(* the warehouse of the stored header at each later call of the run.       *)
(***************************************************************************)
C26_OrderHeaderImmutable ==
    /\ [][\A b \in Branches :
            \A h \in BagToSet(Coll(db, b, "DatHang")) :
                /\ h \in BagToSet(Coll(db', b, "DatHang"))
                /\ HeadersOf(db', b, "CTDDH", h.MasoDDH) = {h}
                /\ HeaderCount(db', b, "CTDDH", h.MasoDDH) = 1]_vars
    /\ [](\A s \in Sessions :
            (sess[s].op \in {"add", "edit", "delete"} /\ sess[s].kind = "CTDDH")
            => \A h \in HeadersOf(db, Branch(s), "CTDDH", sess[s].parent) :
                  h.MAKHO = sess[s].MAKHO)

\* the order DH2 was created on one warehouse while a second creation of
\* DH2 on the other warehouse was under way: the second was refused, and
\* the stored header has the warehouse of the first
C26_Witness ==
    \E s, t \in Sessions :
        /\ sess[s].pc = "done" /\ sess[s].op = "create" /\ sess[s].parent = "DH2"
        /\ sess[s].out = "ok"
        /\ sess[t].pc = "done" /\ sess[t].op = "create" /\ sess[t].parent = "DH2"
        /\ sess[t].out = "DuplicateKeyError"
        /\ sess[t].MAKHO # sess[s].MAKHO
        /\ HeadersOf(db, Branch(s), "CTDDH", "DH2") = {Hdr("CTDDH", "DH2", sess[s].MAKHO)}

\* the position of a script run, counted in MongoDB calls of its handler
CallsMade(pc) ==
    CASE pc \in {"find_existing", "edit_find_inv", "delete_one"} -> 0
      [] pc \in {"find_inv", "edit_set", "delete_inc"} -> 1
      [] pc \in {"insert", "edit_inc"} -> 2
      [] pc = "inc" -> 3
      [] OTHER -> 4

\* the ways a script run of a detail handler ends
Outcomes == {"ok", "duplicate", "insufficient", "DuplicateKeyError"}

(***************************************************************************)
(* C27: every script run of a detail handler that has started reaches its  *)
(* end; each of its calls takes it further along its handler, so no call   *)
(* is made twice and a run makes at most four; it ends with success or     *)
(* with one of the errors of the handler; and once it has ended it does    *)
(* nothing more: the handler is not run again on its own and the database  *)
(* is left as the run left it.  No outcome is a retry that gave up: the    *)
(* handlers have no retry.                                                 *)
(***************************************************************************)
C27_RunsEnd ==
    /\ \A s \in Sessions : (sess[s].pc \notin {"idle", "done"}) ~> (sess[s].pc = "done")
    /\ [][\A s \in Sessions :
            /\ (sess[s].pc \notin {"idle", "done"} /\ sess'[s] # sess[s])
                  => /\ CallsMade(sess'[s].pc) > CallsMade(sess[s].pc)
                     /\ sess'[s].pc # "idle"
            /\ (sess[s].pc = "done" /\ sess'[s] # sess[s])
                  => /\ sess'[s] = Idle
                     /\ db' = db]_vars
    /\ [](\A s \in Sessions : sess[s].pc = "done" => sess[s].out \in Outcomes)

\* two adds were under way together: both are at their end, one with
\* success and one as insufficient
C27_Witness ==
    \E s, t \in Sessions :
        /\ sess[s].pc = "done" /\ sess[s].op = "add" /\ sess[s].out = "insufficient"
        /\ sess[t].pc = "done" /\ sess[t].op = "add" /\ sess[t].out = "ok"

\* the documents of a reference collection that have the id
RefRecords(d, kind, id) == Find(Coll(d, NoBranch, kind), (RefKey(kind) :> id))

\* the number of documents of a reference collection that have the id
RefCount(d, kind, id) == RowCount(Coll(d, NoBranch, kind), (RefKey(kind) :> id))

(***************************************************************************)
(* C28: a save that found its id stored ends with one record of that id    *)
(* stored, holding the fields of the save.                                 *)
(***************************************************************************)
C28_LastSaveWins ==
    [][\A s \in RefSessions :
          (sess[s].pc = "ref_update" /\ sess'[s].pc = "done")
          => /\ RefCount(db', sess[s].kind, sess[s].parent) = 1
             /\ \A e \in RefRecords(db', sess[s].kind, sess[s].parent) :
                   \A k \in DOMAIN sess[s].doc : e[k] = sess[s].doc[k]]_vars

\* in every reachable state a reference collection holds at most one record
\* of an id
C28_OneRecordPerId ==
    \A kind \in RefKinds :
        \A id \in {StripUpper(x) : x \in TypedIds(kind)} \cup {"KHO2"} :
            RefCount(db, kind, id) <= 1

(***************************************************************************)
(* C29: a step that changes an order, receipt, detail or ledger collection *)
(* of a branch is a step of a session whose user has the role Chinhanh or  *)
(* User and that branch as its own: a Congty user changes none of them,    *)
(* and a user of one branch changes none of another branch.                *)
(***************************************************************************)
C29_WritesByBranchUsersOnly ==
    [][\A s \in RoleSessions :
          sess'[s] # sess[s]
          => \A b \in Branches :
                \A c \in transactional_collections :
                    Coll(db', b, c) # Coll(db, b, c)
                    => /\ Role(s) \in {"Chinhanh", "User"}
                       /\ SessionUser(s).branch = b]_vars

\* the administrator opened a page and got the notice, the user of CN1
\* created an outbound receipt in CN1 and the manager of CN2 added a line
\* to the order of CN2
C29_Witness ==
    /\ sess["s0"].pc = "done" /\ sess["s0"].out = "not_supported"
    /\ sess["s2"].pc = "done" /\ sess["s2"].op = "create" /\ sess["s2"].out = "ok"
    /\ HeaderCount(db, "CN1", "CTPX", "PX1") = 1
    /\ sess["s3"].pc = "done" /\ sess["s3"].op = "add" /\ sess["s3"].out = "ok"
    /\ Coll(db, "CN2", "CTDDH") # EmptyBag
    /\ db.server3 = DBTwoBranches.server3

\* the stored users that have the username
UsersNamed(d, username) == Find(Coll(d, None, "users"), [username |-> username])

\* session s makes a step of a call of create_user
CreateUserStep(s) == sess'[s] # sess[s] /\ sess'[s].op = "create_user"

\* the step ends the call with an error
Rejected(s) == sess'[s].pc = "done" /\ sess'[s].out \in {"ValueError", "DuplicateKeyError"}

\* C30 as stated: a role that is not one of the strings CongTy, ChiNhanh and
\* User is rejected
C30_RoleOutsideSetRejected ==
    [][\A s \in Sessions :
          (CreateUserStep(s) /\ sess[s].pc = "idle"
             /\ sess'[s].args.role \notin {"CongTy", "ChiNhanh", "User"})
          => Rejected(s)]_vars

(***************************************************************************)
(* C30, amended: create_user rejects a role that, with surrounding blanks  *)
(* removed and capitalize() applied, is none of Congty, Chinhanh and User; *)
(* a role that gives Chinhanh or User when the branch is None or empty;    *)
(* and a username whose lower-cased form is stored.  A rejected call       *)
(* leaves the users collection as it was.  In every reachable state the    *)
(* stored usernames are lower-cased and no two users have one username.    *)
(***************************************************************************)
C30_CreateUserRejects ==
    /\ [][\A s \in Sessions :
            CreateUserStep(s) =>
               LET a == sess'[s].args
               IN  /\ (sess[s].pc = "idle"
                         /\ NormRole(a.role) \notin {"Congty", "Chinhanh", "User"})
                        => Rejected(s)
                   /\ (sess[s].pc = "idle"
                         /\ NormRole(a.role) \in {"Chinhanh", "User"}
                         /\ a.branch \in {None, ""})
                        => Rejected(s)
                   /\ (sess[s].pc = "user_find" /\ UsersNamed(db, Lower(a.username)) # {})
                        => Rejected(s)
                   /\ (sess[s].pc = "user_insert" /\ UsersNamed(db, Lower(a.username)) # {})
                        => Rejected(s)
                   /\ Rejected(s) => db' = db
                   /\ sess'[s].out = "ok"
                        => /\ UsersNamed(db, Lower(a.username)) = {}
                           /\ UsersNamed(db', Lower(a.username)) = {sess[s].doc}]_vars
    /\ [](\A u \in BagToSet(Coll(db, None, "users")) :
            /\ u.username \in {Lower(x) : x \in UsernameArgs}
            /\ RowCount(Coll(db, None, "users"), [username |-> u.username]) = 1)

\* one call with the username Admin and a valid role was rejected because
\* admin is stored, one call with the role congty created the user u1 with
\* the role Congty, and admin is stored once
C30_Witness ==
    \E s, t \in Sessions :
        /\ sess[s].pc = "done" /\ sess[s].op = "create_user"
        /\ sess[s].args.username = "Admin"
        /\ NormRole(sess[s].args.role) = "Congty"
        /\ sess[s].out = "ValueError"
        /\ sess[t].pc = "done" /\ sess[t].op = "create_user"
        /\ sess[t].args.role = "congty" /\ sess[t].out = "ok"
        /\ \E u \in UsersNamed(db, "u1") : u.role = "Congty"
        /\ RowCount(Coll(db, None, "users"), [username |-> "admin"]) = 1

\* the collections seed_demo_data and bootstrap_users look at
SeededCollections ==
    {<<"server1", "Inventory">>, <<"server2", "Inventory">>,
     <<"server3", "Nhanvien">>, <<"server3", "Kho">>, <<"server3", "Vattu">>,
     <<"server3", "users">>}

(***************************************************************************)
(* C31: a run of seed_demo_data and bootstrap_users leaves every           *)
(* collection that holds a document exactly as it was, so every stored     *)
(* user, reference record and ledger row keeps its fields, and changes no  *)
(* collection other than the ones it seeds; running it a second time       *)
(* changes nothing.                                                        *)
(***************************************************************************)
C31_BootstrapIdempotent ==
    [][\A s \in Sessions :
          (sess[s].pc = "idle" /\ sess'[s].op = "main")
          => /\ \A srv \in DOMAIN db : \A c \in DOMAIN db[srv] :
                   (db[srv][c] # EmptyBag \/ <<srv, c>> \notin SeededCollections)
                   => db'[srv][c] = db[srv][c]
             /\ \A b \in Branches : \A w \in Warehouses : \A m \in Materials :
                   Find(Coll(db, b, "Inventory"), InvKey(w, m)) # {}
                   => Available(db', b, w, m) = Available(db, b, w, m)
             /\ BootstrapUsers(SeedDemoData(db')) = db']_vars

\* main ran again after an order line took stock out of the ledger of CN1:
\* the ledger still shows the adjusted quantity, and the employees and the
\* accounts, of which none was stored, are the seeded ones
C31_Witness ==
    \E s \in Sessions :
        /\ sess[s].pc = "done" /\ sess[s].op = "main"
        /\ Coll(db, "CN1", "CTDDH") # EmptyBag
        /\ Available(db, "CN1", "KHO1", "VT01") < InitStock
        /\ Coll(db, None, "users") = BootstrapAccounts
        /\ Coll(db, None, "Nhanvien") = SeedData.server3.Nhanvien

(***************************************************************************)
(* C32: stock conservation.  In every state in which no script run of a    *)
(* detail handler is between two of its calls, each ledger quantity of     *)
(* each branch is its seeded quantity plus the inbound lines minus the     *)
(* order and outbound lines of its warehouse and material.                 *)
(***************************************************************************)
C32_StockConservation ==
    (\A s \in Sessions : sess[s].pc \in {"idle", "done"})
    => \A b \in Branches, makho \in Warehouses, mahang \in Materials :
          Available(db, b, makho, mahang)
            = Available(DB0, b, makho, mahang) + NetOfLines(db, b, makho, mahang)

(***************************************************************************)
(* C33: when the script runs go one at a time, every ledger quantity is    *)
(* at least 0 in every reachable state.                                    *)
(***************************************************************************)
C33_LedgerNeverNegative ==
    \A b \in Branches :
        \A inv \in BagToSet(Coll(db, b, "Inventory")) : inv.SOLUONG >= 0

\* the ledger update of an edit or a delete of session s is the next call
AdjustsWithoutUpsert(s) ==
    /\ sess[s].pc \in {"edit_inc", "delete_inc"}
    /\ sess'[s] # sess[s]

(***************************************************************************)
(* C34: in every state, each stored detail line has a ledger row for the   *)
(* warehouse of its header and its material; and the ledger update of an   *)
(* edit or a delete, which does not upsert, always finds the row it        *)
(* adjusts.                                                                *)
(***************************************************************************)
C34_LedgerRowForEveryLine ==
    /\ [](\A b \in Branches, kind \in DetailKinds :
            \A x \in BagToSet(Coll(db, b, kind)) :
                \A h \in HeadersOf(db, b, kind, x[ParentKey(kind)]) :
                    Find(Coll(db, b, "Inventory"), InvKey(h.MAKHO, x.MAHANG)) # {})
    /\ [][\A s \in Sessions :
            AdjustsWithoutUpsert(s)
            => Find(Coll(db, Branch(s), "Inventory"),
                    InvKey(sess[s].MAKHO, sess[s].mahang)) # {}]_vars

\* the second half of C34 alone
C34_AdjustmentFindsRow ==
    [][\A s \in Sessions :
          AdjustsWithoutUpsert(s)
          => Find(Coll(db, Branch(s), "Inventory"),
                  InvKey(sess[s].MAKHO, sess[s].mahang)) # {}]_vars

(***************************************************************************)
(* C35: in every reachable state every stored detail line of every branch  *)
(* has a quantity greater than 0 and a unit price of at least 0.           *)
(***************************************************************************)
C35_LinesPositive ==
    \A b \in Branches, kind \in DetailKinds :
        \A x \in BagToSet(Coll(db, b, kind)) : x.SOLUONG > 0 /\ x.DONGIA >= 0

\* an edit has set a line to the least quantity and the least price of the
\* form, and an add has stored another line
C35_Witness ==
    \E s, t \in Sessions :
        /\ sess[s].pc = "done" /\ sess[s].op = "edit" /\ sess[s].out = "ok"
        /\ sess[s].soluong = 1 /\ sess[s].dongia = 0
        /\ DetailDoc(sess[s].kind, sess[s].parent, sess[s].mahang, 1, 0)
              \in BagToSet(Coll(db, Branch(s), sess[s].kind))
        /\ sess[t].pc = "done" /\ sess[t].op = "add" /\ sess[t].out = "ok"


(***************************************************************************)
(* C36 - an edit that keeps the quantity of its line (delta = 0) writes no *)
(* ledger row: it ends successfully, for a stock-consuming kind too and    *)
(* whatever the available quantity is, the line keeps its quantity and     *)
(* takes the new price, every Inventory collection stays as it was, and    *)
(* nothing but the detail collection of the line changes.                  *)
(***************************************************************************)
C36_SameQuantityEditSkipsLedger ==
    [][\A s \in Sessions :
          LET se == sess'[s]
              b == Branch(s)
          IN  (/\ Handled(s) /\ se.op = "edit"
               /\ \E x \in RowOf(db, b, se.kind, se.parent, se.mahang) :
                     x.SOLUONG = se.soluong)
              => /\ se.out = "ok"
                 /\ \A c \in Branches : Coll(db', c, "Inventory") = Coll(db, c, "Inventory")
                 /\ \E x \in RowOf(db, b, se.kind, se.parent, se.mahang) :
                       Coll(db', b, se.kind)
                          = (Coll(db, b, se.kind) (-) SetToBag({x}))
                               (+) SetToBag({[x EXCEPT !.DONGIA = se.dongia]})
                 /\ OnlyChanged(db, db', b, {se.kind})]_vars

\* a line of a stock-consuming kind was edited to its own quantity and a new
\* price while the ledger had nothing left for it
C36_Witness ==
    \E s \in Sessions :
        /\ sess[s].pc = "done" /\ sess[s].op = "edit" /\ sess[s].out = "ok"
        /\ Consuming(sess[s].kind)
        /\ sess[s].soluong = sess[s].old
        /\ Available(db, Branch(s), sess[s].MAKHO, sess[s].mahang) = 0
        /\ RowOf(db, Branch(s), sess[s].kind, sess[s].parent, sess[s].mahang)
              = {DetailDoc(sess[s].kind, sess[s].parent, sess[s].mahang,
                           sess[s].old, sess[s].dongia)}


(***************************************************************************)
(* The reporting functions of reports.py.  Each call of find() is a step;  *)
(* a function reads the branch codes of the Kho collection and then, for   *)
(* each branch, the outbound headers (revenue_by_branch) or the inbound    *)
(* and the outbound headers (inventory_by_branch) of the branch.           *)
(***************************************************************************)
ReportFns == {"revenue_by_branch", "inventory_by_branch"}

\* (mutant) a find() that takes the documents out of the collection
ReadAllAndDrop(d, branch, name) ==
    [db |-> Put(d, branch, name, EmptyBag), docs |-> Coll(d, branch, name)]

\* list(get_collection(branch, name).find()): the documents read, and the
\* databases after the call
ReadAll(d, branch, name) ==
    [db |-> d, docs |-> Coll(d, branch, name)]

\* _get_branches: the distinct MACN values of the Kho documents
GetBranches(docs) == {k.MACN : k \in BagToSet(docs)}

\* a call of a reporting function starts
BeginReport(s) ==
    /\ sess[s].pc = "idle"
    /\ \E fn \in ReportFns :
          sess' = [sess EXCEPT ![s] =
                      [todo |-> {}, pn |-> 0, records |-> {}]
                         @@ [Idle EXCEPT !.pc = "get_branches", !.op = fn]]
    /\ UNCHANGED <<db, ops>>

\* the first collection a reporting function reads for a branch
FirstRead(fn) == IF fn = "inventory_by_branch" THEN "report_pn" ELSE "report_px"

\* branches = _get_branches(dbm)
GetBranchesStep(s) ==
    /\ sess[s].pc = "get_branches"
    /\ LET r == ReadAll(db, NoBranch, "Kho")
           branches == GetBranches(r.docs)
       IN  /\ db' = r.db
           /\ sess' = [sess EXCEPT ![s] =
                          IF branches = {}
                          THEN Done(sess[s], "ok")
                          ELSE [sess[s] EXCEPT !.todo = branches,
                                               !.pc = FirstRead(sess[s].op)]]
    /\ UNCHANGED ops

\* pn_df = DataFrame(list(get_collection(branch, "PhieuNhap").find())) for
\* the next branch of the loop
ReportInboundStep(s) ==
    /\ sess[s].pc = "report_pn"
    /\ \E branch \in sess[s].todo :
          IF GetCollection(branch, "PhieuNhap") = "ValueError"
          THEN /\ sess' = [sess EXCEPT ![s] = Done(@, "ValueError")]
               /\ UNCHANGED db
          ELSE LET r == ReadAll(db, branch, "PhieuNhap")
               IN  /\ db' = r.db
                   /\ sess' = [sess EXCEPT ![s].pn = BagCardinality(r.docs),
                                           ![s].kind = branch,
                                           ![s].pc = "report_px"]
    /\ UNCHANGED ops

\* px_df = DataFrame(list(get_collection(branch, "PhieuXuat").find())) and
\* the record of the branch
ReportOutboundStep(s) ==
    /\ sess[s].pc = "report_px"
    /\ \E branch \in sess[s].todo :
          /\ sess[s].op = "inventory_by_branch" => branch = sess[s].kind
          /\ IF GetCollection(branch, "PhieuXuat") = "ValueError"
             THEN /\ sess' = [sess EXCEPT ![s] = Done(@, "ValueError")]
                  /\ UNCHANGED db
             ELSE LET r == ReadAll(db, branch, "PhieuXuat")
                      px == BagCardinality(r.docs)
                      value == IF sess[s].op = "inventory_by_branch"
                               THEN sess[s].pn - px ELSE px
                      left == sess[s].todo \ {branch}
                      se == [sess[s] EXCEPT
                                !.records = @ \cup {[branch |-> branch, value |-> value]},
                                !.todo = left,
                                !.kind = "",
                                !.pc = FirstRead(sess[s].op)]
                  IN  /\ db' = r.db
                      /\ sess' = [sess EXCEPT ![s] =
                                     IF left = {} THEN Done(se, "ok") ELSE se]
    /\ UNCHANGED ops

\* the reporting functions run while the sessions of the branch work on the
\* detail lines
ReportNext ==
    \/ Next
    \/ \E s \in Sessions : BeginReport(s)
    \/ \E s \in Sessions : GetBranchesStep(s)
    \/ \E s \in Sessions : ReportInboundStep(s)
    \/ \E s \in Sessions : ReportOutboundStep(s)

ReportSpec == Init /\ [][ReportNext]_vars

(***************************************************************************)
(* C38 - the reporting functions are read-only: no step of a call of       *)
(* revenue_by_branch or inventory_by_branch changes a header, detail,      *)
(* inventory or reference collection of any server.                        *)
(***************************************************************************)
C38_ReportsReadOnly ==
    [][\A s \in Sessions :
          (sess[s].op \in ReportFns /\ sess[s].pc # "done" /\ sess'[s] # sess[s])
              => \A srv \in Servers : db'[srv] = db[srv]]_vars

\* both functions have returned a record for a branch that has headers and
\* detail lines
C38_Witness ==
    \E s, t \in Sessions :
        /\ sess[s].pc = "done" /\ sess[s].op = "revenue_by_branch" /\ sess[s].out = "ok"
        /\ sess[t].pc = "done" /\ sess[t].op = "inventory_by_branch" /\ sess[t].out = "ok"
        /\ \E r \in sess[s].records : r.branch = "CN1" /\ r.value > 0
        /\ \E r \in sess[t].records : r.branch = "CN1"
        /\ \E k \in DetailKinds : Coll(db, "CN1", k) # EmptyBag


(***************************************************************************)
(* The account page (show_create_account): it is closed to every role but  *)
(* Congty and Chinhanh, offers the roles and the branches the role of the  *)
(* logged-in user allows, and calls create_user with the selection.        *)
(***************************************************************************)
AccountSessions == {"s0", "s1", "s2"}

\* the names typed into the form
AccountNames == {"admin", "u1", "U1", "u2"}

\* (mutant) every role is offered to every user of the page
RoleOptionsAll(role) == {"CongTy", "ChiNhanh", "User"}

\* role_options
RoleOptions(role) ==
    IF role = "Congty" THEN {"CongTy", "ChiNhanh", "User"} ELSE {"ChiNhanh", "User"}

\* the values branch can take for the selected role
BranchOptions(s, selected_role) ==
    IF selected_role \in {"ChiNhanh", "User"}
    THEN IF Role(s) = "Congty" THEN {"CN1", "CN2"} ELSE {SessionUser(s).branch}
    ELSE {None}

\* the page is opened by a user of another role: st.warning and return
DeniedCreateAccount(s) ==
    /\ sess[s].pc = "idle"
    /\ Role(s) \notin {"Congty", "Chinhanh"}
    /\ sess' = [sess EXCEPT ![s] = Done([Idle EXCEPT !.op = "create_account"], "warning")]
    /\ UNCHANGED <<db, ops>>

\* the form is submitted: auth.create_user(dbm, username, password,
\* selected_role, branch); its exceptions are shown with st.error
SubmitCreateAccount(s) ==
    /\ sess[s].pc = "idle"
    /\ ops < MaxOps
    /\ Role(s) \in {"Congty", "Chinhanh"}
    /\ \E username \in AccountNames :
          \E selected_role \in RoleOptions(Role(s)) :
             \E branch \in BranchOptions(s, selected_role) :
                sess' = [sess EXCEPT ![s] =
                            CreateUserS(username, "password", selected_role, branch)]
    /\ ops' = ops + 1
    /\ UNCHANGED db

\* the users collection after bootstrap_users
DBAccounts == [DB0 EXCEPT !.server3.users = BootstrapAccounts]

InitAccounts ==
    /\ db = DBAccounts
    /\ sess = [s \in AccountSessions |-> Idle]
    /\ ops = 0

AccountNext ==
    \E s \in AccountSessions :
        \/ DeniedCreateAccount(s)
        \/ SubmitCreateAccount(s)
        \/ UserFindStep(s)
        \/ UserInsertStep(s)
        \/ Finish(s)

AccountSpec == InitAccounts /\ [][AccountNext]_vars

\* the users collection
Users(d) == Coll(d, None, "users")

(***************************************************************************)
(* C37 - account creation cannot escalate privilege: every step of a       *)
(* session that changes the users collection adds exactly one account; if  *)
(* the logged-in user has role ChiNhanh the account has role ChiNhanh or   *)
(* User and the branch of the creator; a logged-in user of role User adds  *)
(* no account; and an account of role CongTy, or of a branch other than    *)
(* the creator's, is added only by a logged-in user of role CongTy.        *)
(***************************************************************************)
C37_NoPrivilegeEscalation ==
    [][\A s \in AccountSessions :
          (sess'[s] # sess[s] /\ Users(db') # Users(db))
              => \E u \in BagToSet(Users(db')) :
                    /\ Users(db') = Users(db) (+) SetToBag({u})
                    /\ Role(s) \in {"Congty", "Chinhanh"}
                    /\ Role(s) = "Chinhanh"
                          => /\ u.role \in {"Chinhanh", "User"}
                             /\ u.branch = Upper(SessionUser(s).branch)
                    /\ u.role = "Congty" => Role(s) = "Congty"
                    /\ ("branch" \in DOMAIN u /\ u.branch # SessionUser(s).branch)
                          => Role(s) = "Congty"]_vars

\* a ChiNhanh user has created an account of the own branch, the CongTy
\* user an account of a branch picked on the form, and a user of role User
\* was turned away
C37_Witness ==
    /\ sess["s1"].pc = "done" /\ sess["s1"].op = "create_user" /\ sess["s1"].out = "ok"
    /\ CopiesIn(sess["s1"].doc, Users(db)) = 1
    /\ sess["s1"].doc.branch = "CN1"
    /\ sess["s0"].pc = "done" /\ sess["s0"].op = "create_user" /\ sess["s0"].out = "ok"
    /\ CopiesIn(sess["s0"].doc, Users(db)) = 1
    /\ sess["s0"].doc.role \in {"Chinhanh", "User"} /\ sess["s0"].doc.branch = "CN2"
    /\ sess["s2"].pc = "done" /\ sess["s2"].out = "warning"


(***************************************************************************)
(* Header creation through a client session, call by call: find_one,       *)
(* start_session, start_transaction, insert_one(doc, session=session),     *)
(* commit_transaction, and the except and finally blocks.  Each call of    *)
(* the driver either returns or raises; an insert that meets a stored      *)
(* header of the id, or the uncommitted insert of it by another            *)
(* transaction, raises.  The session record holds the state of the client  *)
(* session (none, started, ended), the state of the transaction (none,     *)
(* active, committed, aborted) and the call that raised.                   *)
(***************************************************************************)
BeginCreateSession(s) ==
    /\ sess[s].pc = "idle"
    /\ ops < MaxOps
    /\ \E id \in HeaderIds :
          \E k \in Find(Coll(db, NoBranch, "Kho"), [MACN |-> Branch(s)]) :
              sess' = [sess EXCEPT ![s] =
                          [session |-> "none", txn |-> "none", raised |-> ""]
                             @@ [Idle EXCEPT !.pc = "hdr_find", !.op = "create_session",
                                             !.kind = KindOfId(id), !.parent = id,
                                             !.MAKHO = k.MAKHO]]
    /\ ops' = ops + 1
    /\ UNCHANGED db

\* the exception of a call is caught by `except Exception`
Raise(se, call) == [se EXCEPT !.pc = "except", !.raised = call]

\* session = client.start_session()
StartSession(d, se, raises) ==
    [db |-> d,
     se |-> IF raises THEN Raise(se, "start_session")
            ELSE [se EXCEPT !.session = "started", !.pc = "start_transaction"]]

\* session.start_transaction()
StartTransaction(d, se, raises) ==
    [db |-> d,
     se |-> IF raises THEN Raise(se, "start_transaction")
            ELSE [se EXCEPT !.txn = "active", !.pc = "txn_insert"]]

\* insert_one(doc, session=session): the write stays in the transaction;
\* written is TRUE when another open transaction has written the id
TxnInsert(branch, d, se, written, raises) ==
    LET col == Coll(d, branch, HeaderOf(se.kind))
        doc == Hdr(se.kind, se.parent, se.MAKHO)
    IN  [db |-> d,
         se |-> IF raises \/ written \/ ViolatesIndex(HeaderOf(se.kind), col, doc)
                THEN Raise(se, "insert")
                ELSE [se EXCEPT !.pc = "txn_commit"]]

\* session.commit_transaction(): the write of the transaction is stored
TxnCommit(branch, d, se, raises) ==
    LET col == Coll(d, branch, HeaderOf(se.kind))
        doc == Hdr(se.kind, se.parent, se.MAKHO)
    IN  IF raises
        THEN [db |-> d, se |-> Raise(se, "commit")]
        ELSE [db |-> Put(d, branch, HeaderOf(se.kind), InsertOne(col, doc)),
              se |-> [se EXCEPT !.txn = "committed", !.pc = "rerun"]]

\* st.success and st.rerun(): the rerun leaves the try block through finally
Rerun(d, se) == [db |-> d, se |-> [se EXCEPT !.out = "ok", !.pc = "finally"]]

\* (mutant) the except block reports the error and aborts nothing
ExceptNoAbort(d, se) == [db |-> d, se |-> [se EXCEPT !.out = "error", !.pc = "finally"]]

\* except Exception: if session: session.abort_transaction() (its own
\* exception is passed over); st.error
Except(d, se) ==
    [db |-> d,
     se |-> [se EXCEPT !.txn = IF se.session = "started" /\ se.txn = "active"
                               THEN "aborted" ELSE @,
                       !.out = "error",
                       !.pc = "finally"]]

\* finally: if session: session.end_session()
Finally(d, se) ==
    [db |-> d,
     se |-> [se EXCEPT !.session = IF se.session = "started" THEN "ended" ELSE @,
                       !.pc = "done"]]

\* another session of the branch has an open transaction that wrote the id
WrittenByOther(s) ==
    \E t \in DOMAIN sess :
        /\ t # s /\ Branch(t) = Branch(s)
        /\ sess[t].op = "create_session" /\ sess[t].pc \in {"txn_commit", "except"}
        /\ sess[t].txn = "active" /\ sess[t].raised \in {"", "commit"}
        /\ sess[t].kind = sess[s].kind /\ sess[t].parent = sess[s].parent

StartSessionStep(s) ==
    /\ sess[s].pc = "hdr_insert" /\ sess[s].op = "create_session"
    /\ \E raises \in BOOLEAN : Apply(s, StartSession(db, sess[s], raises))

StartTransactionStep(s) ==
    /\ sess[s].pc = "start_transaction"
    /\ \E raises \in BOOLEAN : Apply(s, StartTransaction(db, sess[s], raises))

TxnInsertStep(s) ==
    /\ sess[s].pc = "txn_insert"
    /\ \E raises \in BOOLEAN :
          Apply(s, TxnInsert(Branch(s), db, sess[s], WrittenByOther(s), raises))

TxnCommitStep(s) ==
    /\ sess[s].pc = "txn_commit"
    /\ \E raises \in BOOLEAN : Apply(s, TxnCommit(Branch(s), db, sess[s], raises))

RerunStep(s) == sess[s].pc = "rerun" /\ Apply(s, Rerun(db, sess[s]))

ExceptStep(s) == sess[s].pc = "except" /\ Apply(s, Except(db, sess[s]))

FinallyStep(s) == sess[s].pc = "finally" /\ Apply(s, Finally(db, sess[s]))

\* the calls of a run of the create form
SessionRunStep(s) ==
    \/ FindHeaderStep(s)
    \/ StartSessionStep(s)
    \/ StartTransactionStep(s)
    \/ TxnInsertStep(s)
    \/ TxnCommitStep(s)
    \/ RerunStep(s)
    \/ ExceptStep(s)
    \/ FinallyStep(s)

SessionNext ==
    \E s \in Sessions :
        \/ BeginCreateSession(s)
        \/ FindHeaderStep(s)
        \/ StartSessionStep(s)
        \/ StartTransactionStep(s)
        \/ TxnInsertStep(s)
        \/ TxnCommitStep(s)
        \/ RerunStep(s)
        \/ ExceptStep(s)
        \/ FinallyStep(s)
        \/ Finish(s)

\* a script run is straight-line code and each call returns or raises: a
\* run that has a next call makes it
SessionSpec ==
    InitOrderAndInbound /\ [][SessionNext]_vars
        /\ \A s \in Sessions : WF_vars(SessionRunStep(s))

\* the state of the client session of a run, "none" outside of a create run
SessionOf(s) == IF "session" \in DOMAIN sess[s] THEN sess[s].session ELSE "none"

\* the headers of all branches
AllHeaders(d) ==
    [b \in Branches |-> [k \in DetailKinds |-> Coll(d, b, HeaderOf(k))]]

============================================================================
